---- MODULE Spec2Model ----
(***************************************************************************)
(* ReveeGate: webhook ingestion, the Payment/Donation state machine, the   *)
(* event publication step and the WebSocket hub.                           *)
(*                                                                         *)
(* Two sub-systems share this module.  The payment side (SpecPay) models   *)
(* WebhookHandler.HandleMidtrans / HandleXendit, DonationService.          *)
(* ProcessWebhook and DonationService.ManualReconcile as concurrent calls  *)
(* that interleave at every access to a shared store (Redis SETNX, the     *)
(* payments and donations tables, the broker).  The hub side (SpecHub)     *)
(* models Hub.Run and the goroutines around it.                            *)
(***************************************************************************)
EXTENDS Integers, Sequences, FiniteSets, TLC

(***************************************************************************)
(* Bounds of the model.                                                    *)
(***************************************************************************)
\* Total number of calls (webhook requests and manual reconciliations).
MaxCalls == 2
\* Number of calls that may be in progress at the same time.
MaxInflight == 2
\* Number of store / broker errors injected in one behaviour.
MaxFaults == 1

(***************************************************************************)
(* Domain constants: payment.Status, donation.Status, payment.Provider.    *)
(***************************************************************************)
StatusPending == "pending"
StatusPaid == "paid"
StatusExpired == "expired"
StatusFailed == "failed"
StatusRefunded == "refunded"
StatusCompleted == "completed"

ProviderMidtrans == "midtrans"
ProviderXendit == "xendit"

\* config.Midtrans.ServerKey and config.Xendit.WebhookToken of the handler.
ServerKey == "SK"
XenditWebhookToken == "XT"

(***************************************************************************)
(* The rows the stores hold.  P1 is a Midtrans payment and P2 a Xendit     *)
(* payment, both with external id "o1" (external ids are unique per        *)
(* provider only); order "o2" has no payment.                              *)
(***************************************************************************)
PaymentIds == {"P1", "P2"}
DonationIds == {"D1", "D2"}
OrderIds == {"o1", "o2"}
TransactionIds == {"t1", "t2"}

PaymentProvider == [p \in PaymentIds |-> IF p = "P1" THEN ProviderMidtrans ELSE ProviderXendit]
PaymentExternalID == [p \in PaymentIds |-> "o1"]
PaymentDonationID == [p \in PaymentIds |-> IF p = "P1" THEN "D1" ELSE "D2"]

\* payment.NewPayment / donation.NewDonation: the persisted mutable fields.
NewPayment == [status |-> StatusPending, paidAt |-> 0, meta |-> FALSE]
NewDonation == [status |-> StatusPending, paidAt |-> 0]

(***************************************************************************)
(* Entity methods (internal/domain/donation/entity.go).                    *)
(***************************************************************************)
Payment_MarkAsPaid(p, now) == [p EXCEPT !.status = StatusPaid, !.paidAt = now]
Payment_MarkAsExpired(p) == [p EXCEPT !.status = StatusExpired]
Payment_MarkAsFailed(p) == [p EXCEPT !.status = StatusFailed]
Payment_IsPaid(p) == p.status = StatusPaid

Donation_MarkAsPaid(d, now) == [d EXCEPT !.status = StatusCompleted, !.paidAt = now]
Donation_MarkAsExpired(d) == [d EXCEPT !.status = StatusExpired]
Donation_MarkAsFailed(d) == [d EXCEPT !.status = StatusFailed]

(***************************************************************************)
(* Pure functions of the ingress.                                          *)
(***************************************************************************)
\* hex(SHA-512(data)): modelled as a collision-free function of its input.
SHA512Hex(data) == <<"sha512", data>>

\* Faulty variant: the comparison with signature_key is dropped.
verifyMidtransSignature_Any(webhook) == TRUE

\* WebhookHandler.verifyMidtransSignature
verifyMidtransSignature(webhook) ==
    SHA512Hex(webhook.order_id \o webhook.status_code \o webhook.gross_amount \o ServerKey)
        = webhook.signature_key

\* Faulty variant: a transaction status without a case of its own fails the
\* payment.
mapMidtransStatus_DefaultFailed(transactionStatus, fraudStatus) ==
    CASE transactionStatus = "capture" ->
            IF fraudStatus = "accept" \/ fraudStatus = "" THEN StatusPaid ELSE StatusPending
      [] transactionStatus = "settlement" -> StatusPaid
      [] transactionStatus = "pending" -> StatusPending
      [] transactionStatus \in {"deny", "cancel"} -> StatusFailed
      [] transactionStatus = "expire" -> StatusExpired
      [] OTHER -> StatusFailed

\* WebhookHandler.mapMidtransStatus
mapMidtransStatus(transactionStatus, fraudStatus) ==
    CASE transactionStatus = "capture" ->
            IF fraudStatus = "accept" \/ fraudStatus = "" THEN StatusPaid ELSE StatusPending
      [] transactionStatus = "settlement" -> StatusPaid
      [] transactionStatus = "pending" -> StatusPending
      [] transactionStatus \in {"deny", "cancel"} -> StatusFailed
      [] transactionStatus = "expire" -> StatusExpired
      [] OTHER -> StatusPending

\* Faulty variant: the case of the paid statuses without SETTLED.
mapXenditStatus_NoSettled(status) ==
    CASE status \in {"PAID", "COMPLETED"} -> StatusPaid
      [] status \in {"PENDING", "ACTIVE"} -> StatusPending
      [] status = "EXPIRED" -> StatusExpired
      [] status = "FAILED" -> StatusFailed
      [] OTHER -> StatusPending

\* WebhookHandler.mapXenditStatus
mapXenditStatus(status) ==
    CASE status \in {"PAID", "SETTLED", "COMPLETED"} -> StatusPaid
      [] status \in {"PENDING", "ACTIVE"} -> StatusPending
      [] status = "EXPIRED" -> StatusExpired
      [] status = "FAILED" -> StatusFailed
      [] OTHER -> StatusPending

\* redis.IdempotencyKey
IdempotencyKey(provider, externalID, transactionID) ==
    "webhook:" \o provider \o ":" \o externalID \o ":" \o transactionID

\* Faulty variant: the query without its `AND external_id = $2`.
GetByExternalID_AnyOrder(provider, externalID) ==
    {p \in PaymentIds : PaymentProvider[p] = provider}

\* PaymentRepository.GetByExternalID: the rows matching (provider, external id).
GetByExternalID(provider, externalID) ==
    {p \in PaymentIds : PaymentProvider[p] = provider /\ PaymentExternalID[p] = externalID}

(***************************************************************************)
(* State.                                                                  *)
(***************************************************************************)
VARIABLES
    payments,     \* payments table: PaymentIds -> row
    donations,    \* donations table: DonationIds -> row
    idem,         \* Redis: the idempotency keys that are set
    published,    \* broker topic donations:new: events published per donation
    webhookLog,   \* webhook_logs table: number of rows
    logRepo,      \* WebhookHandler.webhookLogRepo: "repo", or "nil"
    calls,        \* the calls in progress, per slot
    started,      \* number of calls started so far
    faults        \* number of store errors injected so far

payVars == <<payments, donations, idem, published, webhookLog, logRepo, calls, started, faults>>

\* The state of the WebSocket hub.
VARIABLES
    clients,      \* h.clients: per channel, whether the map has the key, and its set
    register,     \* h.register
    unregister,   \* h.unregister
    broadcast,    \* h.broadcast
    hub,          \* the goroutine of Hub.Run
    bridge,       \* the goroutine of subscribeToEvents, inside BroadcastDonation
    conns,        \* per client: its channel and the position of its goroutines
    send,         \* per client: the content of client.send
    closes,       \* per client: how many times client.send was closed
    handled,      \* per client: how many unregister requests Run has handled
    enq,          \* per client: every message ever placed on client.send
    written,      \* per client: the messages written to its socket
    nextEvent,    \* the number of the next donation event
    crashed,      \* "" or the runtime panic that ended the process
    reader,       \* "" or the method that holds h.mu.RLock: GetStats, GetClientCount
    stopped,      \* whether h.ctx is cancelled
    inbound       \* the inbound messages read so far, and the last of them

hubVars == <<clients, register, unregister, broadcast, hub, bridge, conns, send,
             closes, handled, enq, written, nextEvent, crashed, reader, stopped,
             inbound>>

\* One application of a status mapping of the ingress: its arguments, and its
\* result once it has returned.
VARIABLES mapped

mapVars == <<mapped>>

\* The subscription of the hub to the broker topic donations:new.
VARIABLES
    topic,        \* sub.Channel(): the payloads delivered and not yet received
    forwarded,    \* the events the subscriber has passed to its callback, in order
    dropped       \* the payloads the subscriber has dropped

subVars == <<topic, forwarded, dropped>>

\* The requests for a WebSocket that a handler has answered with 401.
VARIABLES refused

authVars == <<refused>>

\* The configuration the server was started with (config.Load).
VARIABLES config

cfgVars == <<config>>

\* Two Midtrans notifications put to the signature check of HandleMidtrans,
\* and what the handler made of each.
VARIABLES checked

sigVars == <<checked>>

vars == <<payVars, hubVars, mapVars, subVars, authVars, cfgVars, sigVars>>

Slots == 1..MaxInflight

NoPayment == [status |-> "", paidAt |-> 0, meta |-> FALSE]
NoDonation == [status |-> "", paidAt |-> 0]

\* A free slot.  kind: which entry point; pc: the next store access of the
\* call; pay, don: the entity values the call holds in memory; gate: the
\* outcome of SetNX; trace: the store accesses the call has made, in order,
\* as <<operation, target, value>>; paidBefore: the payments that were
\* persisted as paid, with a completed donation, when the call started; req:
\* the request as received.
NoRequest == [none |-> TRUE]

IdleCall ==
    [kind |-> "none", pc |-> "idle", id |-> 0, req |-> NoRequest,
     provider |-> "", order |-> "", tx |-> "",
     status |-> "", payId |-> "", pay |-> NoPayment, don |-> NoDonation,
     gate |-> "none", faulted |-> FALSE, trace |-> <<>>, result |-> "", resp |-> 0,
     paidBefore |-> {}]

\* Inputs.  A Midtrans notification as its sender builds it: the signature is
\* computed over order_id + status_code + gross_amount with the key the
\* sender holds (the provider holds ServerKey, anybody else does not).
MidtransStatusInputs ==
    {<<"settlement", "">>, <<"expire", "">>, <<"deny", "">>, <<"pending", "">>, <<"refund", "">>}
SenderKeys == {ServerKey, "forged"}
MidtransWebhooks ==
    {[order_id |-> o, transaction_id |-> t, transaction_status |-> st[1],
      fraud_status |-> st[2], status_code |-> "200", gross_amount |-> "50000.00",
      signature_key |-> SHA512Hex(o \o "200" \o "50000.00" \o k)] :
        o \in OrderIds, t \in TransactionIds, st \in MidtransStatusInputs, k \in SenderKeys}

XenditStatusInputs == {"PAID", "EXPIRED", "PENDING"}
XenditTokens == {XenditWebhookToken, "wrong"}
\* r.Header.Get("x-callback-token") is "" for a request without the header.
XenditTokenInputs == XenditTokens \cup {""}
XenditWebhooks ==
    {[id |-> "t1", external_id |-> "o1", status |-> st] : st \in XenditStatusInputs}

\* AdminHandler.ReconcilePayment passes paid, or failed.
ManualStatuses == {StatusPaid, StatusFailed}

InitPay ==
    /\ payments = [p \in PaymentIds |-> NewPayment]
    /\ donations = [d \in DonationIds |-> NewDonation]
    /\ idem = {}
    /\ published = [d \in DonationIds |-> 0]
    /\ webhookLog = 0
    /\ logRepo \in {"repo", "nil"}
    /\ calls = [c \in Slots |-> IdleCall]
    /\ started = 0
    /\ faults = 0

(***************************************************************************)
(* Helpers of the call actions.                                            *)
(***************************************************************************)
\* A new call may take slot c: it is the lowest free slot.
CanStart(c) ==
    /\ started < MaxCalls
    /\ calls[c].pc = "idle"
    /\ \A b \in Slots : b < c => calls[b].pc # "idle"

NewCall(kind) ==
    [IdleCall EXCEPT !.kind = kind, !.id = started + 1,
                     !.paidBefore = {p \in PaymentIds :
                                        /\ Payment_IsPaid(payments[p])
                                        /\ donations[PaymentDonationID[p]].status = StatusCompleted}]

Log(call, op, target, value) == [call EXCEPT !.trace = Append(@, <<op, target, value>>)]

\* The call ends: ProcessWebhook / ManualReconcile returned `result` and the
\* handler answered with HTTP status `resp`.
Ends(call, result, resp) == [call EXCEPT !.pc = "ret", !.result = result, !.resp = resp]

CanFail == faults < MaxFaults

(***************************************************************************)
(* Webhook ingress (internal/http/handler/webhook_handler.go).              *)
(***************************************************************************)
\* WebhookHandler.logWebhook on a non-nil repository: INSERT INTO webhook_logs.
\* An error of the insert is logged and the handler goes on.
logWebhook ==
    \/ /\ webhookLog' = webhookLog + 1
       /\ UNCHANGED faults
    \/ /\ CanFail
       /\ faults' = faults + 1
       /\ UNCHANGED webhookLog

\* HandleMidtrans after the body was logged: parse, verify the signature, map
\* the status; the next step is the call of ProcessWebhook.
MidtransVerified(call, w) ==
    IF verifyMidtransSignature(w)
    THEN [Log(call, "verify", "signature", "ok") EXCEPT
            !.status = mapMidtransStatus(w.transaction_status, w.fraud_status),
            !.pc = "pw_setnx"]
    ELSE Ends(Log(call, "verify", "signature", "fail"), "unauthorized", 401)

\* WebhookHandler.HandleMidtrans, up to the call of ProcessWebhook: the body is
\* logged (logWebhook) before it is parsed and its signature verified.  With a
\* nil webhookLogRepo the call of Create panics; chi's Recoverer answers 500.
HandleMidtrans(c, w) ==
    /\ CanStart(c)
    /\ started' = started + 1
    /\ LET call == [NewCall("midtrans") EXCEPT !.req = w, !.provider = ProviderMidtrans,
                        !.order = w.order_id, !.tx = w.transaction_id]
       IN  \/ /\ logRepo = "nil"
              /\ calls' = [calls EXCEPT ![c] =
                              Ends(Log(call, "panic", "webhook_logs", "nil repository"),
                                   "panic", 500)]
              /\ UNCHANGED <<webhookLog, faults>>
           \/ /\ logRepo = "repo"
              /\ logWebhook
              /\ calls' = [calls EXCEPT ![c] =
                              MidtransVerified(Log(call, "write", "webhook_logs", "insert"), w)]
    /\ UNCHANGED <<payments, donations, idem, published, logRepo>>
    /\ UNCHANGED <<hubVars, mapVars, subVars, authVars, cfgVars, sigVars>>

\* Faulty variant: any callback token is accepted.
XenditTokenValid_Any(token) == TRUE

\* HandleXendit line 117: the x-callback-token header against the configured
\* webhook token.
XenditTokenValid(token) == token = config.webhookToken

\* WebhookHandler.HandleXendit, up to the call of ProcessWebhook: the callback
\* token is compared first, then the body is read and logged.
HandleXendit(c, token, w) ==
    /\ CanStart(c)
    /\ started' = started + 1
    /\ LET call == [NewCall("xendit") EXCEPT !.req = [token |-> token, body |-> w],
                        !.provider = ProviderXendit,
                        !.order = w.external_id, !.tx = w.id]
           ok == Log(call, "verify", "token", "ok")
           logged == Log(ok, "write", "webhook_logs", "insert")
       IN  \/ /\ ~XenditTokenValid(token)
              /\ calls' = [calls EXCEPT ![c] =
                              Ends(Log(call, "verify", "token", "fail"), "unauthorized", 401)]
              /\ UNCHANGED <<webhookLog, faults>>
           \/ /\ XenditTokenValid(token)
              /\ logRepo = "nil"
              /\ calls' = [calls EXCEPT ![c] =
                              Ends(Log(ok, "panic", "webhook_logs", "nil repository"),
                                   "panic", 500)]
              /\ UNCHANGED <<webhookLog, faults>>
           \/ /\ XenditTokenValid(token)
              /\ logRepo = "repo"
              /\ logWebhook
              /\ calls' = [calls EXCEPT ![c] =
                              [logged EXCEPT !.status = mapXenditStatus(w.status),
                                             !.pc = "pw_setnx"]]
    /\ UNCHANGED <<payments, donations, idem, published, logRepo>>
    /\ UNCHANGED <<hubVars, mapVars, subVars, authVars, cfgVars, sigVars>>

(***************************************************************************)
(* DonationService.ProcessWebhook (service, lines 173-275), one action per  *)
(* store access.                                                           *)
(***************************************************************************)
\* Faulty variant: a plain SET, which reports success to every caller.
Cache_SetNX_Overwrite(keys, key) == [set |-> TRUE, keys |-> keys \cup {key}]

\* Cache.SetNX on a reachable Redis: SET key NX.
Cache_SetNX(keys, key) == [set |-> key \notin keys, keys |-> keys \cup {key}]

\* Faulty variant: the duplicate check is dropped, a replay is processed again.
GateReturns_Never(set) == FALSE

\* ProcessWebhook line 183: `if !set { return nil }`.
GateReturns(set) == ~set

AfterSetNX(call, key, set, outcome) ==
    LET c1 == [Log(call, "setnx", key, outcome) EXCEPT !.gate = outcome]
    IN  IF GateReturns(set) THEN Ends(c1, "nil", 200) ELSE [c1 EXCEPT !.pc = "pw_getpay"]

PW_SetNX(c) ==
    /\ calls[c].pc = "pw_setnx"
    /\ LET call == calls[c]
           key == IdempotencyKey(call.provider, call.order, call.tx)
           r == Cache_SetNX(idem, key)
       IN  \/ /\ idem' = r.keys
              /\ calls' = [calls EXCEPT ![c] =
                              AfterSetNX(call, key, r.set, IF r.set THEN "claimed" ELSE "dup")]
              /\ UNCHANGED faults
           \/ \* Redis unreachable: go-redis returns (false, err); the error is
              \* logged and `set` is false.
              /\ CanFail
              /\ faults' = faults + 1
              /\ calls' = [calls EXCEPT ![c] =
                              AfterSetNX([call EXCEPT !.faulted = TRUE], key, FALSE, "err")]
              /\ UNCHANGED idem
    /\ UNCHANGED <<payments, donations, published, webhookLog, logRepo, started>>
    /\ UNCHANGED <<hubVars, mapVars, subVars, authVars, cfgVars, sigVars>>

\* ProcessWebhook lines 199-272 between the read of the Payment and its write:
\* skip a paid Payment, else mark the in-memory Payment by the reported status.
AfterGetPayment(call, p, row) ==
    LET c1 == [Log(call, "R_pay", p, row.status) EXCEPT !.payId = p, !.pay = row]
    IN  IF Payment_IsPaid(row) THEN Ends(c1, "nil", 200)
        ELSE CASE call.status = StatusPaid ->
                    [c1 EXCEPT !.pay = Payment_MarkAsPaid(row, call.id), !.pc = "pw_updpay"]
               [] call.status = StatusExpired ->
                    [c1 EXCEPT !.pay = Payment_MarkAsExpired(row), !.pc = "pw_updpay"]
               [] call.status = StatusFailed ->
                    [c1 EXCEPT !.pay = Payment_MarkAsFailed(row), !.pc = "pw_updpay"]
               [] OTHER -> Ends(c1, "nil", 200)

PW_GetPayment(c) ==
    /\ calls[c].pc = "pw_getpay"
    /\ LET call == calls[c]
           rows == GetByExternalID(call.provider, call.order)
       IN  \/ /\ rows = {}
              /\ calls' = [calls EXCEPT ![c] =
                              Ends(Log(call, "R_pay", "none", "notfound"), "payment not found", 200)]
              /\ UNCHANGED faults
           \/ /\ \E p \in rows :
                    calls' = [calls EXCEPT ![c] = AfterGetPayment(call, p, payments[p])]
              /\ UNCHANGED faults
           \/ /\ CanFail
              /\ faults' = faults + 1
              /\ calls' = [calls EXCEPT ![c] =
                              Ends(Log([call EXCEPT !.faulted = TRUE], "R_pay", "none", "err"),
                                   "payment not found", 200)]
    /\ UNCHANGED <<payments, donations, idem, published, webhookLog, logRepo, started>>
    /\ UNCHANGED <<hubVars, mapVars, subVars, authVars, cfgVars, sigVars>>

PW_UpdatePayment(c) ==
    /\ calls[c].pc = "pw_updpay"
    /\ LET call == calls[c]
       IN  \/ /\ payments' = [payments EXCEPT ![call.payId] = call.pay]
              /\ calls' = [calls EXCEPT ![c] =
                              [Log(call, "W_pay", call.payId, call.pay.status) EXCEPT !.pc = "pw_getdon"]]
              /\ UNCHANGED faults
           \/ /\ CanFail
              /\ faults' = faults + 1
              /\ calls' = [calls EXCEPT ![c] =
                              Ends(Log([call EXCEPT !.faulted = TRUE], "W_pay", call.payId, "err"),
                                   "failed to update payment", 200)]
              /\ UNCHANGED payments
    /\ UNCHANGED <<donations, idem, published, webhookLog, logRepo, started>>
    /\ UNCHANGED <<hubVars, mapVars, subVars, authVars, cfgVars, sigVars>>

\* Faulty variant: the expired case marks the Donation as failed.
MarkDonation_Mixed(status, row, now) ==
    CASE status = StatusPaid -> Donation_MarkAsPaid(row, now)
      [] OTHER -> Donation_MarkAsFailed(row)

\* The Donation mark of ProcessWebhook's three cases (lines 222, 256, 269).
MarkDonation(status, row, now) ==
    CASE status = StatusPaid -> Donation_MarkAsPaid(row, now)
      [] status = StatusExpired -> Donation_MarkAsExpired(row)
      [] OTHER -> Donation_MarkAsFailed(row)

PW_GetDonation(c) ==
    /\ calls[c].pc = "pw_getdon"
    /\ LET call == calls[c]
           d == PaymentDonationID[call.payId]
       IN  \/ /\ calls' = [calls EXCEPT ![c] =
                              [Log(call, "R_don", d, donations[d].status) EXCEPT
                                  !.don = MarkDonation(call.status, donations[d], call.id),
                                  !.pc = "pw_upddon"]]
              /\ UNCHANGED faults
           \/ \* GetByID fails: an error on the paid path, skipped on the others.
              /\ CanFail
              /\ faults' = faults + 1
              /\ calls' = [calls EXCEPT ![c] =
                              Ends(Log([call EXCEPT !.faulted = TRUE], "R_don", d, "err"),
                                   IF call.status = StatusPaid THEN "donation not found" ELSE "nil",
                                   200)]
    /\ UNCHANGED <<payments, donations, idem, published, webhookLog, logRepo, started>>
    /\ UNCHANGED <<hubVars, mapVars, subVars, authVars, cfgVars, sigVars>>

PW_UpdateDonation(c) ==
    /\ calls[c].pc = "pw_upddon"
    /\ LET call == calls[c]
           d == PaymentDonationID[call.payId]
       IN  \/ /\ donations' = [donations EXCEPT ![d] = call.don]
              /\ calls' = [calls EXCEPT ![c] =
                              LET c1 == Log(call, "W_don", d, call.don.status)
                              IN  IF call.status = StatusPaid
                                  THEN [c1 EXCEPT !.pc = "pw_publish"]
                                  ELSE Ends(c1, "nil", 200)]
              /\ UNCHANGED faults
           \/ /\ CanFail
              /\ faults' = faults + 1
              /\ calls' = [calls EXCEPT ![c] =
                              Ends(Log([call EXCEPT !.faulted = TRUE], "W_don", d, "err"),
                                   IF call.status = StatusPaid
                                   THEN "failed to update donation" ELSE "nil",
                                   200)]
              /\ UNCHANGED donations
    /\ UNCHANGED <<payments, idem, published, webhookLog, logRepo, started>>
    /\ UNCHANGED <<hubVars, mapVars, subVars, authVars, cfgVars, sigVars>>

\* Faulty variant: the publish error is returned to the caller.
PublishFailed_Returned(call, d) ==
    Ends(Log([call EXCEPT !.faulted = TRUE], "pub", d, "err"), "failed to publish event", 200)

\* ProcessWebhook lines 236-238: a publish error is only logged; the call goes
\* on to `return nil`.
PublishFailed(call, d) ==
    Ends(Log([call EXCEPT !.faulted = TRUE], "pub", d, "err"), "nil", 200)

\* PubSub.PublishDonationEvent; an error is logged and ProcessWebhook returns nil.
PW_Publish(c) ==
    /\ calls[c].pc = "pw_publish"
    /\ LET call == calls[c]
           d == PaymentDonationID[call.payId]
       IN  \/ /\ published' = [published EXCEPT ![d] = @ + 1]
              /\ calls' = [calls EXCEPT ![c] = Ends(Log(call, "pub", d, "ok"), "nil", 200)]
              /\ UNCHANGED faults
           \/ /\ CanFail
              /\ faults' = faults + 1
              /\ calls' = [calls EXCEPT ![c] = PublishFailed(call, d)]
              /\ UNCHANGED published
    /\ UNCHANGED <<payments, donations, idem, webhookLog, logRepo, started>>
    /\ UNCHANGED <<hubVars, mapVars, subVars, authVars, cfgVars, sigVars>>

(***************************************************************************)
(* DonationService.ManualReconcile (service, lines 278-328).                *)
(***************************************************************************)
ManualReconcile(c, p, status) ==
    /\ CanStart(c)
    /\ started' = started + 1
    /\ calls' = [calls EXCEPT ![c] =
                    [NewCall("manual") EXCEPT !.payId = p, !.status = status, !.pc = "mr_getpay"]]
    /\ UNCHANGED <<payments, donations, idem, published, webhookLog, logRepo, faults>>
    /\ UNCHANGED <<hubVars, mapVars, subVars, authVars, cfgVars, sigVars>>

MR_GetPayment(c) ==
    /\ calls[c].pc = "mr_getpay"
    /\ LET call == calls[c]
       IN  \/ /\ calls' = [calls EXCEPT ![c] =
                              [Log(call, "R_pay", call.payId, payments[call.payId].status) EXCEPT
                                  !.pay = payments[call.payId], !.pc = "mr_getdon"]]
              /\ UNCHANGED faults
           \/ /\ CanFail
              /\ faults' = faults + 1
              /\ calls' = [calls EXCEPT ![c] =
                              Ends(Log([call EXCEPT !.faulted = TRUE], "R_pay", call.payId, "err"),
                                   "payment not found", 0)]
    /\ UNCHANGED <<payments, donations, idem, published, webhookLog, logRepo, started>>
    /\ UNCHANGED <<hubVars, mapVars, subVars, authVars, cfgVars, sigVars>>

\* ManualReconcile lines 289-311: the switch on the requested status, applied
\* to the entities just read whatever their status, and the reason annotation.
ReconcileMark(call, row) ==
    LET c1 == [call EXCEPT !.don = row, !.pay.meta = TRUE]
    IN  CASE call.status = StatusPaid ->
                [c1 EXCEPT !.pay = Payment_MarkAsPaid(@, call.id),
                           !.don = Donation_MarkAsPaid(@, call.id),
                           !.pc = "mr_publish"]
          [] call.status = StatusFailed ->
                [c1 EXCEPT !.pay = Payment_MarkAsFailed(@),
                           !.don = Donation_MarkAsFailed(@),
                           !.pc = "mr_updpay"]
          [] OTHER -> [c1 EXCEPT !.pc = "mr_updpay"]

MR_GetDonation(c) ==
    /\ calls[c].pc = "mr_getdon"
    /\ LET call == calls[c]
           d == PaymentDonationID[call.payId]
       IN  \/ /\ calls' = [calls EXCEPT ![c] =
                              ReconcileMark(Log(call, "R_don", d, donations[d].status), donations[d])]
              /\ UNCHANGED faults
           \/ /\ CanFail
              /\ faults' = faults + 1
              /\ calls' = [calls EXCEPT ![c] =
                              Ends(Log([call EXCEPT !.faulted = TRUE], "R_don", d, "err"),
                                   "donation not found", 0)]
    /\ UNCHANGED <<payments, donations, idem, published, webhookLog, logRepo, started>>
    /\ UNCHANGED <<hubVars, mapVars, subVars, authVars, cfgVars, sigVars>>

\* Line 302: the event is published before either entity is written; the
\* error of the publish is dropped.
MR_Publish(c) ==
    /\ calls[c].pc = "mr_publish"
    /\ LET call == calls[c]
           d == PaymentDonationID[call.payId]
       IN  \/ /\ published' = [published EXCEPT ![d] = @ + 1]
              /\ calls' = [calls EXCEPT ![c] = [Log(call, "pub", d, "ok") EXCEPT !.pc = "mr_updpay"]]
              /\ UNCHANGED faults
           \/ /\ CanFail
              /\ faults' = faults + 1
              /\ calls' = [calls EXCEPT ![c] =
                              [Log([call EXCEPT !.faulted = TRUE], "pub", d, "err") EXCEPT
                                  !.pc = "mr_updpay"]]
              /\ UNCHANGED published
    /\ UNCHANGED <<payments, donations, idem, webhookLog, logRepo, started>>
    /\ UNCHANGED <<hubVars, mapVars, subVars, authVars, cfgVars, sigVars>>

MR_UpdatePayment(c) ==
    /\ calls[c].pc = "mr_updpay"
    /\ LET call == calls[c]
       IN  \/ /\ payments' = [payments EXCEPT ![call.payId] = call.pay]
              /\ calls' = [calls EXCEPT ![c] =
                              [Log(call, "W_pay", call.payId, call.pay.status) EXCEPT !.pc = "mr_upddon"]]
              /\ UNCHANGED faults
           \/ /\ CanFail
              /\ faults' = faults + 1
              /\ calls' = [calls EXCEPT ![c] =
                              Ends(Log([call EXCEPT !.faulted = TRUE], "W_pay", call.payId, "err"),
                                   "failed to update payment", 0)]
              /\ UNCHANGED payments
    /\ UNCHANGED <<donations, idem, published, webhookLog, logRepo, started>>
    /\ UNCHANGED <<hubVars, mapVars, subVars, authVars, cfgVars, sigVars>>

MR_UpdateDonation(c) ==
    /\ calls[c].pc = "mr_upddon"
    /\ LET call == calls[c]
           d == PaymentDonationID[call.payId]
       IN  \/ /\ donations' = [donations EXCEPT ![d] = call.don]
              /\ calls' = [calls EXCEPT ![c] = Ends(Log(call, "W_don", d, call.don.status), "nil", 0)]
              /\ UNCHANGED faults
           \/ /\ CanFail
              /\ faults' = faults + 1
              /\ calls' = [calls EXCEPT ![c] =
                              Ends(Log([call EXCEPT !.faulted = TRUE], "W_don", d, "err"),
                                   "failed to update donation", 0)]
              /\ UNCHANGED donations
    /\ UNCHANGED <<payments, idem, published, webhookLog, logRepo, started>>
    /\ UNCHANGED <<hubVars, mapVars, subVars, authVars, cfgVars, sigVars>>

\* The call has returned to its caller: its slot is free again.
Return(c) ==
    /\ calls[c].pc = "ret"
    /\ calls' = [calls EXCEPT ![c] = IdleCall]
    /\ UNCHANGED <<payments, donations, idem, published, webhookLog, logRepo, started, faults>>
    /\ UNCHANGED <<hubVars, mapVars, subVars, authVars, cfgVars, sigVars>>

NextPay ==
    \E c \in Slots :
        \/ \E w \in MidtransWebhooks : HandleMidtrans(c, w)
        \/ \E token \in XenditTokens, w \in XenditWebhooks : HandleXendit(c, token, w)
        \/ \E p \in PaymentIds, status \in ManualStatuses : ManualReconcile(c, p, status)
        \/ PW_SetNX(c)
        \/ PW_GetPayment(c)
        \/ PW_UpdatePayment(c)
        \/ PW_GetDonation(c)
        \/ PW_UpdateDonation(c)
        \/ PW_Publish(c)
        \/ MR_GetPayment(c)
        \/ MR_GetDonation(c)
        \/ MR_Publish(c)
        \/ MR_UpdatePayment(c)
        \/ MR_UpdateDonation(c)
        \/ Return(c)

\* The payment side with requests that carry no callback token.
NextConfig ==
    \E c \in Slots :
        \/ \E w \in MidtransWebhooks : HandleMidtrans(c, w)
        \/ \E token \in XenditTokenInputs, w \in XenditWebhooks : HandleXendit(c, token, w)
        \/ \E p \in PaymentIds, status \in ManualStatuses : ManualReconcile(c, p, status)
        \/ PW_SetNX(c)
        \/ PW_GetPayment(c)
        \/ PW_UpdatePayment(c)
        \/ PW_GetDonation(c)
        \/ PW_UpdateDonation(c)
        \/ PW_Publish(c)
        \/ MR_GetPayment(c)
        \/ MR_GetDonation(c)
        \/ MR_Publish(c)
        \/ MR_UpdatePayment(c)
        \/ MR_UpdateDonation(c)
        \/ Return(c)

(***************************************************************************)
(* The WebSocket hub (internal/realtime/websocket/hub.go).                  *)
(***************************************************************************)
\* Capacity of h.register, h.unregister and h.broadcast (256 in NewHub).
HubChanCap == 2
MaxInbound == 1
\* Capacity of a client's send channel (sendBufferSize, 256).
SendBufCap == 2
\* Donation events the broker delivers to the bridge.
MaxEvents == 2
\* Payloads the broker delivers to the subscription of the hub.
MaxPayloads == 3

ClientIds == {"c1", "c2"}
\* The clients are named in the order in which they connect.
ClientOrder == [cl \in ClientIds |-> CASE cl = "c1" -> 1 [] cl = "c2" -> 2]
\* An overlay token as issued: 32 characters.
OverlayTokens == {"0123456789abcdef0123456789abcdef"}
AdminSubjects == {"u1"}

\* The token parameter of a request for /ws/overlay: an issued token, no
\* token, and a token of 31 characters.
OverlayTokenInputs == OverlayTokens \cup {"", "0123456789abcdef0123456789abcde"}

\* The value of ClaimsContextKey in the context of a request for /ws/admin:
\* the claims the auth middleware has validated, or nothing.
Claims(subject) == [ok |-> TRUE, subject |-> subject]
NoClaims == [ok |-> FALSE, subject |-> ""]
AdminClaims == {Claims(u) : u \in AdminSubjects}
AdminClaimInputs == AdminClaims \cup {NoClaims}

\* Auth.ValidateOverlayToken
ValidateOverlayToken(token) ==
    IF Len(token) >= 32 THEN [valid |-> TRUE, err |-> FALSE]
    ELSE [valid |-> FALSE, err |-> TRUE]

\* Faulty variant: HandleOverlay without its call of ValidateOverlayToken.
OverlayAccepted_NonEmpty(token) == token # ""

\* HandleOverlay lines 266-280: the two early returns with 401.
OverlayAccepted(token) ==
    /\ token # ""
    /\ LET r == ValidateOverlayToken(token) IN ~(r.err \/ ~r.valid)

\* A channel name is the concatenation prefix \o rest, kept in two parts.
OverlayChannel(token) == [prefix |-> "overlay:", rest |-> token]
AdminChannel(subject) == [prefix |-> "admin:", rest |-> subject]
NoChannel == [prefix |-> "", rest |-> ""]
Channels ==
    {OverlayChannel(t) : t \in OverlayTokens} \cup {AdminChannel(u) : u \in AdminSubjects}

\* Faulty variant: the fan-out without its prefix test.
IsOverlayChannel_Any(channel) == TRUE

\* len(channel) > 8 && channel[:8] == "overlay:"
IsOverlayChannel(channel) ==
    /\ Len(channel.prefix \o channel.rest) > 8
    /\ channel.prefix = "overlay:"

WelcomeMessage == [type |-> "welcome", id |-> 0]
DonationMessage(e) == [type |-> "donation", id |-> e]
PongMessage == [type |-> "pong", id |-> 0]
AckMessage == [type |-> "ack", id |-> 0]
ErrorMessage == [type |-> "error", id |-> 0]
NoReply == [type |-> "", id |-> 0]

NoClient == ""
NoMessage == [channel |-> NoChannel, message |-> [type |-> "", id |-> 0]]
HubSelect ==
    [pc |-> "select", client |-> NoClient, msg |-> NoMessage,
     members |-> {}, todo |-> {}, sent |-> {}, full |-> {}]
BridgeIdle == [pc |-> "idle", event |-> 0, todo |-> {}]
NoEntry == [present |-> FALSE, members |-> {}]
NoConn == [channel |-> NoChannel, pc |-> "none", readPump |-> "", writePump |-> ""]

NoInbound == [count |-> 0, client |-> NoClient, type |-> ""]

InitHub ==
    /\ clients = [ch \in Channels |-> NoEntry]
    /\ register = <<>>
    /\ unregister = <<>>
    /\ broadcast = <<>>
    /\ hub = HubSelect
    /\ bridge = BridgeIdle
    /\ conns = [cl \in ClientIds |-> NoConn]
    /\ send = [cl \in ClientIds |-> <<>>]
    /\ closes = [cl \in ClientIds |-> 0]
    /\ handled = [cl \in ClientIds |-> 0]
    /\ enq = [cl \in ClientIds |-> <<>>]
    /\ written = [cl \in ClientIds |-> <<>>]
    /\ nextEvent = 1
    /\ crashed = ""
    /\ reader = ""
    /\ stopped = FALSE
    /\ inbound = NoInbound

NoMapping == [provider |-> "", status |-> "", fraud |-> "", result |-> ""]

InitSub ==
    /\ topic = <<>>
    /\ forwarded = <<>>
    /\ dropped = {}
    /\ refused = {}

\* A deployment that sets XENDIT_WEBHOOK_TOKEN.
Configured == [webhookToken |-> XenditWebhookToken]
\* Load line 163: without XENDIT_WEBHOOK_TOKEN the webhook token is "".
DefaultConfig == [webhookToken |-> ""]
Configs == {Configured, DefaultConfig}

\* Nothing was put to the signature check.
NoChecked == [payload |-> <<>>, outcome |-> <<>>]

Init ==
    /\ InitPay /\ InitHub /\ mapped = NoMapping /\ InitSub /\ config = Configured
    /\ checked = NoChecked

\* The server started with any configuration Load accepts.
InitAnyConfig ==
    /\ InitPay /\ InitHub /\ mapped = NoMapping /\ InitSub /\ config \in Configs
    /\ checked = NoChecked

(***************************************************************************)
(* The status mappings of the ingress, applied to one input.               *)
(***************************************************************************)
MidtransTransactionStatuses ==
    {"capture", "settlement", "pending", "deny", "cancel", "expire",
     "refund", "authorize", "Settlement", ""}
MidtransFraudStatuses == {"", "accept", "challenge", "deny"}
XenditStatuses ==
    {"PAID", "SETTLED", "COMPLETED", "PENDING", "ACTIVE", "EXPIRED", "FAILED",
     "VOIDED", "paid", ""}

MapInputs ==
    {[provider |-> ProviderMidtrans, status |-> st, fraud |-> f, result |-> ""] :
        st \in MidtransTransactionStatuses, f \in MidtransFraudStatuses}
    \cup {[provider |-> ProviderXendit, status |-> st, fraud |-> "", result |-> ""] :
        st \in XenditStatuses}

InitMap ==
    /\ InitPay /\ InitHub /\ mapped \in MapInputs /\ InitSub /\ config = Configured
    /\ checked = NoChecked

\* HandleMidtrans line 74: status := h.mapMidtransStatus(...).
MapMidtrans ==
    /\ mapped.provider = ProviderMidtrans /\ mapped.result = ""
    /\ mapped' = [mapped EXCEPT !.result = mapMidtransStatus(mapped.status, mapped.fraud)]
    /\ UNCHANGED <<payVars, hubVars, subVars, authVars, cfgVars, sigVars>>

\* HandleXendit: status := h.mapXenditStatus(webhook.Status).
MapXendit ==
    /\ mapped.provider = ProviderXendit /\ mapped.result = ""
    /\ mapped' = [mapped EXCEPT !.result = mapXenditStatus(mapped.status)]
    /\ UNCHANGED <<payVars, hubVars, subVars, authVars, cfgVars, sigVars>>

NextMap == MapMidtrans \/ MapXendit

SpecMap == InitMap /\ [][NextMap]_vars

(***************************************************************************)
(* The signature check of HandleMidtrans, applied to two notifications.    *)
(***************************************************************************)
\* Notifications as anybody can build them from one notification of the
\* provider that was seen on the wire: the signature_key is the provider's
\* (or a made-up one), the other fields are chosen freely.  "o1" \o "200" and
\* "o12" \o "00" are the same characters split differently.
SignedPayloads ==
    {[order_id |-> o, status_code |-> sc, gross_amount |-> "50000.00",
      transaction_id |-> t, transaction_status |-> st, fraud_status |-> f,
      signature_key |-> k] :
        o \in {"o1", "o12"}, sc \in {"200", "00"}, t \in TransactionIds,
        st \in {"settlement", "pending"}, f \in {"", "challenge"},
        k \in {SHA512Hex("o1" \o "200" \o "50000.00" \o ServerKey), SHA512Hex("made up")}}

InitSig ==
    /\ InitPay /\ InitHub /\ mapped = NoMapping /\ InitSub /\ config = Configured
    /\ checked \in {[payload |-> <<a, b>>, outcome |-> <<>>] : a, b \in SignedPayloads}

\* HandleMidtrans lines 64-75 for the next of the two notifications: 401 when
\* verifyMidtransSignature fails, else the status that goes to ProcessWebhook.
CheckSignature ==
    /\ Len(checked.outcome) < Len(checked.payload)
    /\ LET w == checked.payload[Len(checked.outcome) + 1]
       IN  checked' = [checked EXCEPT !.outcome =
                          Append(@, IF verifyMidtransSignature(w)
                                    THEN [accepted |-> TRUE,
                                          status |-> mapMidtransStatus(w.transaction_status,
                                                                       w.fraud_status)]
                                    ELSE [accepted |-> FALSE, status |-> ""])]
    /\ UNCHANGED <<payVars, hubVars, mapVars, subVars, authVars, cfgVars>>

NextSig == CheckSignature

SpecSig == InitSig /\ [][NextSig]_vars

\* Faulty variant: the newest element is received first.
Receive_Newest(q) == [value |-> q[Len(q)], rest |-> SubSeq(q, 1, Len(q) - 1)]

\* A receive from a Go channel: the oldest element, and what stays queued.
Receive(q) == [value |-> Head(q), rest |-> Tail(q)]

\* BroadcastDonation holds h.mu.RLock from line 171 until it returns.
\* Faulty variant: h.mu.Lock does not wait for the holders of the read lock.
RLockHeld_Never == FALSE

\* Whether some goroutine other than Run holds h.mu.RLock: the bridge inside
\* the loop of BroadcastDonation, or a caller of GetStats or GetClientCount.
RLockHeld == bridge.pc = "sending" \/ reader # ""

\* Faulty variant: the client is inserted into the set of every channel.
registerClient_EveryChannel(reg, channel, cl) ==
    [ch \in DOMAIN reg |-> [present |-> TRUE, members |-> reg[ch].members \cup {cl}]]

\* h.clients after registerClient(client).
registerClient(reg, channel, cl) ==
    [reg EXCEPT ![channel] = [present |-> TRUE, members |-> @.members \cup {cl}]]

\* Faulty variant: unregisterClient deletes and closes without looking.
IsRegistered_Always(reg, channel, cl) == TRUE

\* Whether unregisterClient(client) finds the client in the registry.
IsRegistered(reg, channel, cl) == reg[channel].present /\ cl \in reg[channel].members

\* Faulty variant: unregisterClient without its `if len(clients) == 0`.
DeleteClient_KeepsEntry(reg, channel, cl) ==
    [reg EXCEPT ![channel].members = @ \ {cl}]

\* h.clients after unregisterClient has deleted the client.
DeleteClient(reg, channel, cl) ==
    IF reg[channel].members = {cl}
    THEN [reg EXCEPT ![channel] = NoEntry]
    ELSE [reg EXCEPT ![channel].members = @ \ {cl}]

(***************************************************************************)
(* The goroutine of Hub.Run.                                               *)
(***************************************************************************)
\* registerClient, once h.mu.Lock is acquired.
DoRegister(cl) ==
    /\ clients' = registerClient(clients, conns[cl].channel, cl)
    /\ hub' = HubSelect
    /\ UNCHANGED <<send, closes, handled, crashed>>

\* unregisterClient, once h.mu.Lock is acquired: close(client.send) panics on
\* a channel that is already closed.
DoUnregister(cl) ==
    /\ hub' = HubSelect
    /\ handled' = [handled EXCEPT ![cl] = @ + 1]
    /\ IF IsRegistered(clients, conns[cl].channel, cl)
       THEN /\ clients' = DeleteClient(clients, conns[cl].channel, cl)
            /\ closes' = [closes EXCEPT ![cl] = @ + 1]
            /\ crashed' = IF closes[cl] > 0 THEN "close of closed channel" ELSE crashed
       ELSE UNCHANGED <<clients, closes, crashed>>
    /\ UNCHANGED send

\* case client := <-h.register
Hub_Register ==
    /\ crashed = "" /\ hub.pc = "select" /\ register # <<>>
    /\ register' = Receive(register).rest
    /\ IF RLockHeld
       THEN /\ hub' = [HubSelect EXCEPT !.pc = "register", !.client = Receive(register).value]
            /\ UNCHANGED <<clients, send, closes, handled, crashed>>
       ELSE DoRegister(Receive(register).value)
    /\ UNCHANGED <<unregister, broadcast, bridge, conns, enq, written, nextEvent>>
    /\ UNCHANGED <<reader, stopped, inbound>>
    /\ UNCHANGED <<payVars, mapVars, subVars, authVars, cfgVars, sigVars>>

\* case client := <-h.unregister
Hub_Unregister ==
    /\ crashed = "" /\ hub.pc = "select" /\ unregister # <<>>
    /\ unregister' = Receive(unregister).rest
    /\ IF RLockHeld
       THEN /\ hub' = [HubSelect EXCEPT !.pc = "unregister", !.client = Receive(unregister).value]
            /\ UNCHANGED <<clients, send, closes, handled, crashed>>
       ELSE DoUnregister(Receive(unregister).value)
    /\ UNCHANGED <<register, broadcast, bridge, conns, enq, written, nextEvent>>
    /\ UNCHANGED <<reader, stopped, inbound>>
    /\ UNCHANGED <<payVars, mapVars, subVars, authVars, cfgVars, sigVars>>

\* The actor was parked in h.mu.Lock and the bridge has released the lock.
Hub_LockAcquired ==
    /\ crashed = "" /\ hub.pc \in {"register", "unregister"} /\ ~RLockHeld
    /\ IF hub.pc = "register" THEN DoRegister(hub.client) ELSE DoUnregister(hub.client)
    /\ UNCHANGED <<register, unregister, broadcast, bridge, conns, enq, written, nextEvent>>
    /\ UNCHANGED <<reader, stopped, inbound>>
    /\ UNCHANGED <<payVars, mapVars, subVars, authVars, cfgVars, sigVars>>

\* case msg := <-h.broadcast, and broadcastToChannel up to its loop.
Hub_Broadcast ==
    /\ crashed = "" /\ hub.pc = "select" /\ broadcast # <<>>
    /\ broadcast' = Receive(broadcast).rest
    /\ LET msg == Receive(broadcast).value
       IN  hub' = IF clients[msg.channel].present
                  THEN [HubSelect EXCEPT !.pc = "broadcast", !.msg = msg,
                                         !.members = clients[msg.channel].members,
                                         !.todo = clients[msg.channel].members]
                  ELSE HubSelect
    /\ UNCHANGED <<clients, register, unregister, bridge, conns, send, closes, handled, enq,
                   written, nextEvent, crashed>>
    /\ UNCHANGED <<reader, stopped, inbound>>
    /\ UNCHANGED <<payVars, mapVars, subVars, authVars, cfgVars, sigVars>>

\* One iteration of the loop of broadcastToChannel, for client cl.  With the
\* client's queue and h.unregister both full the actor parks in
\* `h.unregister <- client`; Run is the only receiver of that channel.
BroadcastTo(cl) ==
    /\ crashed = "" /\ hub.pc = "broadcast" /\ cl \in hub.todo
    /\ LET left == hub.todo \ {cl}
           next == IF left = {} THEN "select" ELSE "broadcast"
       IN  IF closes[cl] > 0
           THEN /\ crashed' = "send on closed channel"
                /\ UNCHANGED <<hub, send, enq, unregister>>
           ELSE IF Len(send[cl]) < SendBufCap
           THEN /\ send' = [send EXCEPT ![cl] = Append(@, hub.msg.message)]
                /\ enq' = [enq EXCEPT ![cl] = Append(@, hub.msg.message)]
                /\ hub' = [hub EXCEPT !.pc = next, !.todo = left, !.sent = @ \cup {cl}]
                /\ UNCHANGED <<unregister, crashed>>
           ELSE IF Len(unregister) < HubChanCap
           THEN /\ unregister' = Append(unregister, cl)
                /\ hub' = [hub EXCEPT !.pc = next, !.todo = left, !.full = @ \cup {cl}]
                /\ UNCHANGED <<send, enq, crashed>>
           ELSE /\ hub' = [hub EXCEPT !.pc = "blocked", !.client = cl]
                /\ UNCHANGED <<send, enq, unregister, crashed>>
    /\ UNCHANGED <<clients, register, broadcast, bridge, conns, closes, handled, written, nextEvent>>
    /\ UNCHANGED <<reader, stopped, inbound>>
    /\ UNCHANGED <<payVars, mapVars, subVars, authVars, cfgVars, sigVars>>

(***************************************************************************)
(* The bridge: subscribeToEvents calls BroadcastDonation for every event,   *)
(* one after the other.                                                    *)
(***************************************************************************)
\* BroadcastDonation up to its loop: takes h.mu.RLock and ranges over the
\* channels of h.clients.
BroadcastDonation ==
    /\ crashed = "" /\ bridge.pc = "idle" /\ nextEvent <= MaxEvents
    /\ hub.pc \notin {"register", "unregister"}
    /\ nextEvent' = nextEvent + 1
    /\ LET targets == {ch \in Channels : clients[ch].present /\ IsOverlayChannel(ch)}
       IN  bridge' = IF targets = {} THEN BridgeIdle
                     ELSE [pc |-> "sending", event |-> nextEvent, todo |-> targets]
    /\ UNCHANGED <<clients, register, unregister, broadcast, hub, conns, send, closes, handled,
                   enq, written, crashed>>
    /\ UNCHANGED <<reader, stopped, inbound>>
    /\ UNCHANGED <<payVars, mapVars, subVars, authVars, cfgVars, sigVars>>

\* h.broadcast <- &BroadcastMessage{channel, data}: blocks while h.broadcast
\* is full; the read lock is released when the loop is over.
Bridge_Send(ch) ==
    /\ crashed = "" /\ bridge.pc = "sending" /\ ch \in bridge.todo
    /\ Len(broadcast) < HubChanCap
    /\ broadcast' = Append(broadcast, [channel |-> ch, message |-> DonationMessage(bridge.event)])
    /\ bridge' = IF bridge.todo = {ch} THEN BridgeIdle
                 ELSE [bridge EXCEPT !.todo = @ \ {ch}]
    /\ UNCHANGED <<clients, register, unregister, hub, conns, send, closes, handled, enq,
                   written, nextEvent, crashed>>
    /\ UNCHANGED <<reader, stopped, inbound>>
    /\ UNCHANGED <<payVars, mapVars, subVars, authVars, cfgVars, sigVars>>

(***************************************************************************)
(* Connections.                                                            *)
(***************************************************************************)
\* The clients are created in the order of their names.
CanConnect(cl) ==
    /\ crashed = "" /\ conns[cl].pc = "none"
    /\ \A other \in ClientIds : ClientOrder[other] < ClientOrder[cl] => conns[other].pc # "none"

\* NewClient(conn, hub, channel, ...).
NewClient(channel) == [NoConn EXCEPT !.channel = channel, !.pc = "welcome"]

\* HandleOverlay up to `h.hub.register <- client`, which blocks while
\* h.register is full; a request without an accepted token is answered 401
\* before the socket is upgraded.
HandleOverlay(cl, token) ==
    /\ crashed = ""
    /\ IF OverlayAccepted(token)
       THEN /\ CanConnect(cl)
            /\ Len(register) < HubChanCap
            /\ register' = Append(register, cl)
            /\ conns' = [conns EXCEPT ![cl] = NewClient(OverlayChannel(token))]
            /\ UNCHANGED refused
       ELSE /\ refused' = refused \cup {[handler |-> "overlay", credential |-> token]}
            /\ UNCHANGED <<register, conns>>
    /\ UNCHANGED <<clients, unregister, broadcast, hub, bridge, send, closes, handled, enq,
                   written, nextEvent, crashed>>
    /\ UNCHANGED <<reader, stopped, inbound>>
    /\ UNCHANGED <<payVars, mapVars, subVars, cfgVars, sigVars>>

\* HandleAdmin up to `h.hub.register <- client`; a request without claims in
\* its context is answered 401 before the socket is upgraded.
HandleAdmin(cl, claims) ==
    /\ crashed = ""
    /\ IF claims.ok
       THEN /\ CanConnect(cl)
            /\ Len(register) < HubChanCap
            /\ register' = Append(register, cl)
            /\ conns' = [conns EXCEPT ![cl] = NewClient(AdminChannel(claims.subject))]
            /\ UNCHANGED refused
       ELSE /\ refused' = refused \cup {[handler |-> "admin", credential |-> ""]}
            /\ UNCHANGED <<register, conns>>
    /\ UNCHANGED <<clients, unregister, broadcast, hub, bridge, send, closes, handled, enq,
                   written, nextEvent, crashed>>
    /\ UNCHANGED <<reader, stopped, inbound>>
    /\ UNCHANGED <<payVars, mapVars, subVars, cfgVars, sigVars>>

\* select { case c.send <- data: default: }; a send on a closed channel
\* panics.
sendJSON(cl, msg) ==
    IF closes[cl] > 0
    THEN /\ crashed' = "send on closed channel"
         /\ UNCHANGED <<send, enq>>
    ELSE IF Len(send[cl]) < SendBufCap
    THEN /\ send' = [send EXCEPT ![cl] = Append(@, msg)]
         /\ enq' = [enq EXCEPT ![cl] = Append(@, msg)]
         /\ UNCHANGED crashed
    ELSE UNCHANGED <<send, enq, crashed>>

\* client.SendWelcome(), then go client.WritePump() and go client.ReadPump().
SendWelcome(cl) ==
    /\ crashed = "" /\ conns[cl].pc = "welcome"
    /\ sendJSON(cl, WelcomeMessage)
    /\ conns' = [conns EXCEPT ![cl].pc = IF crashed' = "" THEN "live" ELSE @,
                              ![cl].readPump = IF crashed' = "" THEN "run" ELSE @,
                              ![cl].writePump = IF crashed' = "" THEN "run" ELSE @]
    /\ UNCHANGED <<clients, register, unregister, broadcast, hub, bridge, closes, handled,
                   written, nextEvent>>
    /\ UNCHANGED <<reader, stopped, inbound>>
    /\ UNCHANGED <<payVars, mapVars, subVars, authVars, cfgVars, sigVars>>

\* ReadPump: ReadMessage fails, the loop breaks and the deferred
\* `c.hub.unregister <- c` runs; it blocks while h.unregister is full.
ReadPump_Exit(cl) ==
    /\ crashed = "" /\ conns[cl].readPump = "run"
    /\ Len(unregister) < HubChanCap
    /\ unregister' = Append(unregister, cl)
    /\ conns' = [conns EXCEPT ![cl].readPump = "done"]
    /\ UNCHANGED <<clients, register, broadcast, hub, bridge, send, closes, handled, enq,
                   written, nextEvent, crashed>>
    /\ UNCHANGED <<reader, stopped, inbound>>
    /\ UNCHANGED <<payVars, mapVars, subVars, authVars, cfgVars, sigVars>>

\* What a client sends: the two message types handleMessage answers, a type
\* it does not know, and bytes that are not a JSON message.
InboundTypes == {"ping", "subscribe", "hello", "malformed"}

\* Faulty variant: a type without a case of its own is answered with an error.
handleMessage_ErrorOnUnknown(type) ==
    CASE type = "malformed" -> ErrorMessage
      [] type = "ping" -> PongMessage
      [] type = "subscribe" -> AckMessage
      [] OTHER -> ErrorMessage

\* Client.handleMessage: the message it passes to sendJSON, if any.
handleMessage(type) ==
    CASE type = "malformed" -> ErrorMessage
      [] type = "ping" -> PongMessage
      [] type = "subscribe" -> AckMessage
      [] OTHER -> NoReply

\* ReadPump: ReadMessage returns a message and handleMessage runs.
ReadPump_Message(cl, type) ==
    /\ crashed = "" /\ conns[cl].readPump = "run"
    /\ inbound.count < MaxInbound
    /\ inbound' = [count |-> inbound.count + 1, client |-> cl, type |-> type]
    /\ IF handleMessage(type) = NoReply
       THEN UNCHANGED <<send, enq, crashed>>
       ELSE sendJSON(cl, handleMessage(type))
    /\ UNCHANGED <<clients, register, unregister, broadcast, hub, bridge, conns, closes, handled,
                   written, nextEvent>>
    /\ UNCHANGED <<reader, stopped>>
    /\ UNCHANGED <<payVars, mapVars, subVars, authVars, cfgVars, sigVars>>

\* WritePump: receives a message and also drains what is queued behind it,
\* n messages in all, writing them to the socket in the order received.
WritePump(cl, n) ==
    /\ crashed = "" /\ conns[cl].writePump = "run"
    /\ n \in 1..Len(send[cl])
    /\ written' = [written EXCEPT ![cl] = @ \o SubSeq(send[cl], 1, n)]
    /\ send' = [send EXCEPT ![cl] = SubSeq(@, n + 1, Len(@))]
    /\ UNCHANGED <<clients, register, unregister, broadcast, hub, bridge, conns, closes, handled,
                   enq, nextEvent, crashed>>
    /\ UNCHANGED <<reader, stopped, inbound>>
    /\ UNCHANGED <<payVars, mapVars, subVars, authVars, cfgVars, sigVars>>

\* Faulty variant: the receive without its `ok`, so that a closed channel is
\* never noticed.
SeesClosed_Never(cl) == FALSE

\* `message, ok := <-c.send` gives !ok once c.send is closed and drained.
SeesClosed(cl) == send[cl] = <<>> /\ closes[cl] > 0

\* WritePump: receive on the closed and drained channel gives !ok: the close
\* frame is written and the loop returns.
WritePump_Closed(cl) ==
    /\ crashed = "" /\ conns[cl].writePump = "run"
    /\ SeesClosed(cl)
    /\ conns' = [conns EXCEPT ![cl].writePump = "done"]
    /\ UNCHANGED <<clients, register, unregister, broadcast, hub, bridge, send, closes, handled,
                   enq, written, nextEvent, crashed>>
    /\ UNCHANGED <<reader, stopped, inbound>>
    /\ UNCHANGED <<payVars, mapVars, subVars, authVars, cfgVars, sigVars>>

\* WritePump: NextWriter fails for the message just received, which is lost,
\* and the loop returns.
WritePump_Error(cl) ==
    /\ crashed = "" /\ conns[cl].writePump = "run"
    /\ send[cl] # <<>>
    /\ send' = [send EXCEPT ![cl] = Receive(@).rest]
    /\ conns' = [conns EXCEPT ![cl].writePump = "done"]
    /\ UNCHANGED <<clients, register, unregister, broadcast, hub, bridge, closes, handled, enq,
                   written, nextEvent, crashed>>
    /\ UNCHANGED <<reader, stopped, inbound>>
    /\ UNCHANGED <<payVars, mapVars, subVars, authVars, cfgVars, sigVars>>

(***************************************************************************)
(* GetStats and GetClientCount: readers of h.clients under h.mu.RLock.  A   *)
(* read lock is not granted while Run waits in h.mu.Lock.                   *)
(***************************************************************************)
GetStats ==
    /\ crashed = "" /\ reader = ""
    /\ hub.pc \notin {"register", "unregister"}
    /\ reader' = "GetStats"
    /\ UNCHANGED <<clients, register, unregister, broadcast, hub, bridge, conns, send, closes,
                   handled, enq, written, nextEvent, crashed, stopped>>
    /\ UNCHANGED inbound
    /\ UNCHANGED <<payVars, mapVars, subVars, authVars, cfgVars, sigVars>>

GetClientCount(ch) ==
    /\ crashed = "" /\ reader = ""
    /\ hub.pc \notin {"register", "unregister"}
    /\ reader' = "GetClientCount"
    /\ UNCHANGED <<clients, register, unregister, broadcast, hub, bridge, conns, send, closes,
                   handled, enq, written, nextEvent, crashed, stopped>>
    /\ UNCHANGED inbound
    /\ UNCHANGED <<payVars, mapVars, subVars, authVars, cfgVars, sigVars>>

\* The deferred h.mu.RUnlock of GetStats and GetClientCount.
Reader_RUnlock ==
    /\ crashed = "" /\ reader # ""
    /\ reader' = ""
    /\ UNCHANGED <<clients, register, unregister, broadcast, hub, bridge, conns, send, closes,
                   handled, enq, written, nextEvent, crashed, stopped>>
    /\ UNCHANGED inbound
    /\ UNCHANGED <<payVars, mapVars, subVars, authVars, cfgVars, sigVars>>

(***************************************************************************)
(* Shutdown.                                                               *)
(***************************************************************************)
\* Hub.Stop: h.cancel().
Stop ==
    /\ crashed = "" /\ ~stopped
    /\ stopped' = TRUE
    /\ UNCHANGED <<clients, register, unregister, broadcast, hub, bridge, conns, send, closes,
                   handled, enq, written, nextEvent, crashed, reader>>
    /\ UNCHANGED inbound
    /\ UNCHANGED <<payVars, mapVars, subVars, authVars, cfgVars, sigVars>>

\* case <-h.ctx.Done() of the select of Run: Run returns.
Hub_Done ==
    /\ crashed = "" /\ stopped /\ hub.pc = "select"
    /\ hub' = [HubSelect EXCEPT !.pc = "done"]
    /\ UNCHANGED <<clients, register, unregister, broadcast, bridge, conns, send, closes,
                   handled, enq, written, nextEvent, crashed, reader, stopped>>
    /\ UNCHANGED inbound
    /\ UNCHANGED <<payVars, mapVars, subVars, authVars, cfgVars, sigVars>>

\* case <-ctx.Done() of the select of the goroutine of SubscribeDonations:
\* the goroutine returns.
Bridge_Done ==
    /\ crashed = "" /\ stopped /\ bridge.pc = "idle"
    /\ bridge' = [BridgeIdle EXCEPT !.pc = "done"]
    /\ UNCHANGED <<clients, register, unregister, broadcast, hub, conns, send, closes,
                   handled, enq, written, nextEvent, crashed, reader, stopped>>
    /\ UNCHANGED inbound
    /\ UNCHANGED <<payVars, mapVars, subVars, authVars, cfgVars, sigVars>>

NextHub ==
    \/ Hub_Register
    \/ Hub_Unregister
    \/ Hub_LockAcquired
    \/ Hub_Broadcast
    \/ \E cl \in ClientIds : BroadcastTo(cl)
    \/ BroadcastDonation
    \/ \E ch \in Channels : Bridge_Send(ch)
    \/ \E cl \in ClientIds, t \in OverlayTokens : HandleOverlay(cl, t)
    \/ \E cl \in ClientIds, claims \in AdminClaims : HandleAdmin(cl, claims)
    \/ \E cl \in ClientIds : SendWelcome(cl)
    \/ \E cl \in ClientIds : ReadPump_Exit(cl)
    \/ \E cl \in ClientIds, n \in 1..SendBufCap : WritePump(cl, n)
    \/ \E cl \in ClientIds : WritePump_Closed(cl)
    \/ \E cl \in ClientIds : WritePump_Error(cl)

\* The hub with callers of its two read-only methods.
NextReaders ==
    \/ NextHub
    \/ GetStats
    \/ \E ch \in Channels : GetClientCount(ch)
    \/ Reader_RUnlock

\* The hub with the messages its clients send.
NextInbound ==
    \/ NextHub
    \/ \E cl \in ClientIds, type \in InboundTypes : ReadPump_Message(cl, type)

\* The hub with every request its two WebSocket routes can receive.
NextAuth ==
    \/ Hub_Register
    \/ Hub_Unregister
    \/ Hub_LockAcquired
    \/ Hub_Broadcast
    \/ \E cl \in ClientIds : BroadcastTo(cl)
    \/ BroadcastDonation
    \/ \E ch \in Channels : Bridge_Send(ch)
    \/ \E cl \in ClientIds, t \in OverlayTokenInputs : HandleOverlay(cl, t)
    \/ \E cl \in ClientIds, claims \in AdminClaimInputs : HandleAdmin(cl, claims)
    \/ \E cl \in ClientIds : SendWelcome(cl)
    \/ \E cl \in ClientIds : ReadPump_Exit(cl)
    \/ \E cl \in ClientIds, n \in 1..SendBufCap : WritePump(cl, n)
    \/ \E cl \in ClientIds : WritePump_Closed(cl)
    \/ \E cl \in ClientIds : WritePump_Error(cl)

\* The hub with its shutdown.
NextStop ==
    \/ NextHub
    \/ Stop
    \/ Hub_Done
    \/ Bridge_Done

(***************************************************************************)
(* The subscriber of the topic donations:new (PubSub.SubscribeDonations):   *)
(* the goroutine that receives the payloads of the broker, parses them and  *)
(* passes the events to BroadcastDonation.                                  *)
(***************************************************************************)
\* What is published on the topic: a DonationEvent as PublishDonationEvent
\* encodes it, and bytes that are not JSON.
PayloadKinds == {"event", "garbage"}

\* ParseDonationEvent: json.Unmarshal into a DonationEvent.
ParseDonationEvent(payload) ==
    IF payload.kind = "event" THEN [err |-> FALSE, id |-> payload.id]
    ELSE [err |-> TRUE, id |-> 0]

\* The broker delivers a payload to the subscription.
Broker_Publish(kind) ==
    /\ crashed = "" /\ nextEvent <= MaxPayloads
    /\ nextEvent' = nextEvent + 1
    /\ topic' = Append(topic, [kind |-> kind, id |-> nextEvent])
    /\ UNCHANGED <<clients, register, unregister, broadcast, hub, bridge, conns, send, closes,
                   handled, enq, written, crashed, reader, stopped, inbound>>
    /\ UNCHANGED <<forwarded, dropped>>
    /\ UNCHANGED <<payVars, mapVars, authVars, cfgVars, sigVars>>

\* Faulty variant: a parse error ends the goroutine of the subscriber.
AfterParseError_Return == [BridgeIdle EXCEPT !.pc = "done"]

\* SubscribeDonations lines 126-129: the error is logged and the loop
\* continues at its select.
AfterParseError == BridgeIdle

\* case msg := <-sub.Channel() of the select of the subscriber: the payload is
\* parsed; on an error it is dropped, else callback(event) runs, which is
\* BroadcastDonation up to its loop.
Subscriber_Receive ==
    /\ crashed = "" /\ bridge.pc = "idle" /\ topic # <<>>
    /\ topic' = Receive(topic).rest
    /\ LET payload == Receive(topic).value
           parsed == ParseDonationEvent(payload)
           targets == {ch \in Channels : clients[ch].present /\ IsOverlayChannel(ch)}
       IN  IF parsed.err
           THEN /\ bridge' = AfterParseError
                /\ dropped' = dropped \cup {payload.id}
                /\ UNCHANGED forwarded
           ELSE /\ hub.pc \notin {"register", "unregister"}
                /\ forwarded' = Append(forwarded, parsed.id)
                /\ bridge' = IF targets = {} THEN BridgeIdle
                             ELSE [pc |-> "sending", event |-> parsed.id, todo |-> targets]
                /\ UNCHANGED dropped
    /\ UNCHANGED <<clients, register, unregister, broadcast, hub, conns, send, closes, handled,
                   enq, written, nextEvent, crashed, reader, stopped, inbound>>
    /\ UNCHANGED <<payVars, mapVars, authVars, cfgVars, sigVars>>

\* The hub fed by the subscriber instead of by direct calls of
\* BroadcastDonation.
NextSub ==
    \/ \E kind \in PayloadKinds : Broker_Publish(kind)
    \/ Subscriber_Receive
    \/ Hub_Register
    \/ Hub_Unregister
    \/ Hub_LockAcquired
    \/ Hub_Broadcast
    \/ \E cl \in ClientIds : BroadcastTo(cl)
    \/ \E ch \in Channels : Bridge_Send(ch)
    \/ \E cl \in ClientIds, t \in OverlayTokens : HandleOverlay(cl, t)
    \/ \E cl \in ClientIds, claims \in AdminClaims : HandleAdmin(cl, claims)
    \/ \E cl \in ClientIds : SendWelcome(cl)
    \/ \E cl \in ClientIds : ReadPump_Exit(cl)
    \/ \E cl \in ClientIds, n \in 1..SendBufCap : WritePump(cl, n)
    \/ \E cl \in ClientIds : WritePump_Closed(cl)
    \/ \E cl \in ClientIds : WritePump_Error(cl)

SpecPay == Init /\ [][NextPay]_vars

SpecConfig == InitAnyConfig /\ [][NextConfig]_vars

\* The hub alone, beside a server whose webhook handler has its repository.
InitWithHub == Init /\ logRepo = "repo"

SpecHub == InitWithHub /\ [][NextHub]_vars

SpecReaders == InitWithHub /\ [][NextReaders]_vars

SpecInbound == InitWithHub /\ [][NextInbound]_vars

SpecStop == InitWithHub /\ [][NextStop]_vars

SpecSub == InitWithHub /\ [][NextSub]_vars

SpecAuth == InitWithHub /\ [][NextAuth]_vars

\* The goroutine of Run, and the goroutine of the subscriber inside
\* BroadcastDonation: the Go scheduler runs each of them whenever it can run.
HubActor ==
    \/ Hub_Register
    \/ Hub_Unregister
    \/ Hub_LockAcquired
    \/ Hub_Broadcast
    \/ \E cl \in ClientIds : BroadcastTo(cl)

BridgeLoop == \E ch \in Channels : Bridge_Send(ch)

SpecHubFair == SpecHub /\ WF_vars(HubActor) /\ WF_vars(BridgeLoop)

\* The goroutine of WritePump of one connection.
WritePumpLoop(cl) ==
    \/ \E n \in 1..SendBufCap : WritePump(cl, n)
    \/ WritePump_Closed(cl)
    \/ WritePump_Error(cl)

\* The hub with every goroutine scheduled fairly: the actor, the bridge, the
\* connection handlers and the write loops.
SpecWriteFair ==
    /\ SpecHub
    /\ WF_vars(HubActor) /\ WF_vars(BridgeLoop)
    /\ \A cl \in ClientIds : WF_vars(SendWelcome(cl)) /\ WF_vars(WritePumpLoop(cl))

\* Shutdown under a fair scheduler: both goroutines run whenever they can,
\* and a select that finds ctx.Done() ready again and again takes that case.
SpecStopFair ==
    /\ SpecStop
    /\ WF_vars(HubActor) /\ SF_vars(Hub_Done)
    /\ WF_vars(BridgeLoop) /\ SF_vars(Bridge_Done)

(***************************************************************************)
(* Vocabulary of the properties of the payment side.                       *)
(***************************************************************************)
WebhookKinds == {"midtrans", "xendit"}
FinalStatuses == {StatusPaid, StatusExpired, StatusFailed}
TraceIdx(call) == 1..Len(call.trace)

IsStoreAccess(e) == e[1] \in {"R_pay", "W_pay", "R_don", "W_don", "pub"}
IsEffect(e) == e[1] \in {"W_pay", "W_don", "pub"}
IsWriteAttempt(e) == e[1] \in {"write", "setnx", "W_pay", "W_don"}

\* The writes and publishes of a call, in order.
EffectSeq(call) == SelectSeq(call.trace, IsEffect)

\* The status the call found when it read its Payment.
ReadStatus(call) == SelectSeq(call.trace, LAMBDA e : e[1] = "R_pay")[1][3]

DonationStatusFor(status) == IF status = StatusPaid THEN StatusCompleted ELSE status

\* A webhook call that has returned, had a valid signature and an unseen key,
\* found its Payment, and met no store or broker error.
FirstDelivery(call) ==
    /\ call.pc = "ret"
    /\ call.kind \in WebhookKinds
    /\ call.gate = "claimed"
    /\ ~call.faulted
    /\ GetByExternalID(call.provider, call.order) # {}

\* What applying `status` to Payment p writes and publishes.
AppliedEffects(p, status) ==
    LET d == PaymentDonationID[p]
    IN  <<<<"W_pay", p, status>>, <<"W_don", d, DonationStatusFor(status)>>>>
          \o (IF status = StatusPaid THEN <<<<"pub", d, "ok">>>> ELSE <<>>)

\* The trace of a call is a faithful record: a row changes, or an event is
\* published, only in a step in which a call records that write.
TraceFaithful ==
    /\ \A p \in PaymentIds : payments'[p] # payments[p] =>
          \E c \in Slots : /\ calls[c].payId = p
                           /\ calls'[c].trace = Append(calls[c].trace, <<"W_pay", p, payments'[p].status>>)
    /\ \A d \in DonationIds : donations'[d] # donations[d] =>
          \E c \in Slots : /\ calls[c].payId \in PaymentIds
                           /\ PaymentDonationID[calls[c].payId] = d
                           /\ calls'[c].trace = Append(calls[c].trace, <<"W_don", d, donations'[d].status>>)
    /\ \A d \in DonationIds : published'[d] # published[d] =>
          \E c \in Slots : /\ calls[c].payId \in PaymentIds
                           /\ PaymentDonationID[calls[c].payId] = d
                           /\ calls'[c].trace = Append(calls[c].trace, <<"pub", d, "ok">>)

(***************************************************************************)
(* C1.  Replay is a no-op: a ProcessWebhook call whose idempotency key is   *)
(* already claimed reads and writes no Payment and no Donation, publishes  *)
(* no DonationEvent, and returns success (nil, answered with HTTP 200).     *)
(***************************************************************************)
C1_ReplayIsNoOp ==
    \A c \in Slots :
        calls[c].gate = "dup" =>
            /\ \A i \in TraceIdx(calls[c]) : ~IsStoreAccess(calls[c].trace[i])
            /\ calls[c].pc = "ret"
            /\ calls[c].result = "nil"
            /\ calls[c].resp = 200

\* The settlement of P1 was processed and published once; its verbatim replay
\* has returned as a duplicate.
C1_Witness ==
    \E c \in Slots :
        /\ calls[c].gate = "dup"
        /\ calls[c].kind = "midtrans"
        /\ calls[c].status = StatusPaid
        /\ payments["P1"].status = StatusPaid
        /\ donations["D1"].status = StatusCompleted
        /\ published["D1"] = 1

C2_FirstDeliveryEffects ==
    \A c \in Slots :
        LET call == calls[c]
        IN  FirstDelivery(call) =>
                EffectSeq(call) =
                    IF ReadStatus(call) = StatusPaid \/ call.status \notin FinalStatuses
                    THEN <<>>
                    ELSE AppliedEffects(call.payId, call.status)

C3_PaidIsTerminal ==
    \A c \in Slots :
        LET call == calls[c]
        IN  (call.kind # "none" /\ call.status # StatusPaid) =>
                \A i \in TraceIdx(call) :
                    LET e == call.trace[i]
                    IN  /\ (e[1] = "W_pay" /\ e[2] \in call.paidBefore /\ e[3] # "err")
                              => e[3] = StatusPaid
                        /\ (e[1] = "W_don" /\ e[3] # "err"
                              /\ \E p \in call.paidBefore : PaymentDonationID[p] = e[2])
                              => e[3] = StatusCompleted

(***************************************************************************)
(* C4.  A Midtrans webhook whose signature_key does not match the          *)
(* recomputed signature takes no step that changes the idempotency keys,   *)
(* a Payment, a Donation or the published events, and a Midtrans webhook   *)
(* whose key is not claimed when it reaches SetNX is not treated as a      *)
(* replay.                                                                 *)
(***************************************************************************)
SignatureMatches(call) ==
    call.req.signature_key =
        SHA512Hex(call.req.order_id \o call.req.status_code \o call.req.gross_amount \o ServerKey)

C4_Step ==
    \A c \in Slots :
        /\ (calls'[c] # calls[c] /\ calls'[c].kind = "midtrans" /\ ~SignatureMatches(calls'[c]))
              => /\ UNCHANGED <<idem, payments, donations, published>>
                 /\ calls'[c].pc = "ret"
                 /\ calls'[c].gate = "none"
        /\ (calls[c].kind = "midtrans" /\ calls[c].pc = "pw_setnx" /\ calls'[c] # calls[c]
              /\ IdempotencyKey(calls[c].provider, calls[c].order, calls[c].tx) \notin idem)
              => calls'[c].gate # "dup"

\* C4: every step of every behaviour satisfies C4_Step.
C4_InvalidSignatureWritesNothing == [][C4_Step]_payVars

\* A forged notification for (o1, t1) was rejected and is still in its slot;
\* the later genuine notification for (o1, t1) has claimed the key.
C4_Witness ==
    \E a, b \in Slots :
        /\ calls[a].kind = "midtrans" /\ calls[b].kind = "midtrans"
        /\ ~SignatureMatches(calls[a]) /\ calls[a].resp = 401
        /\ SignatureMatches(calls[b]) /\ calls[b].id > calls[a].id
        /\ calls[b].order = calls[a].order /\ calls[b].tx = calls[a].tx
        /\ calls[b].gate = "claimed"
        /\ idem = {IdempotencyKey(ProviderMidtrans, calls[b].order, calls[b].tx)}

(***************************************************************************)
(* C8.  At most one DonationEvent is ever published for each Donation.      *)
(***************************************************************************)
C8_AtMostOneEvent == \A d \in DonationIds : published[d] <= 1

(***************************************************************************)
(* C10.  For both providers no write to any store (webhook log,            *)
(* idempotency key, Payment, Donation) is attempted by a webhook request   *)
(* before its signature / token check has succeeded.                        *)
(***************************************************************************)
C10_CheckBeforeAnyWrite ==
    \A c \in Slots :
        LET call == calls[c]
        IN  call.kind \in WebhookKinds =>
                \A i \in TraceIdx(call) :
                    IsWriteAttempt(call.trace[i]) =>
                        \E j \in 1..(i - 1) : /\ call.trace[j][1] = "verify"
                                              /\ call.trace[j][3] = "ok"

(***************************************************************************)
(* Vocabulary of the properties of the hub.                                *)
(***************************************************************************)
IsFull(cl) == Len(send[cl]) = SendBufCap
IsOpen(cl) == closes[cl] = 0
Registered(cl) ==
    conns[cl].channel \in Channels /\ IsRegistered(clients, conns[cl].channel, cl)

\* How many times message m was placed on the queue of cl.
TimesEnqueued(cl, m) == Cardinality({i \in 1..Len(enq[cl]) : enq[cl][i] = m})

\* The donation events among the messages of q, in the order of q.  Events
\* are numbered in the order in which BroadcastDonation broadcasts them.
DonationsIn(q) == SelectSeq(q, LAMBDA m : m.type = "donation")

StrictlyIncreasing(q) == \A i, j \in 1..Len(q) : i < j => q[i].id < q[j].id

IsPrefix(p, q) == Len(p) <= Len(q) /\ SubSeq(q, 1, Len(p)) = p

\* Run handles an unregister request for cl in this step.
HandlesUnregister(cl) == handled'[cl] = handled[cl] + 1

(***************************************************************************)
(* C5.  A broadcast to a channel with N members of which exactly one has a  *)
(* full queue is processed to its end: the hub does not stop in the middle *)
(* of it; when it is over the message has been placed once on the queue of *)
(* each of the N-1 other members and not on the full member's, an          *)
(* unregister request for the full member is pending, and the others are   *)
(* still registered with open queues; and handling an unregister request   *)
(* for a registered client removes that client alone and closes its queue. *)
(***************************************************************************)
C5_Outcome ==
    /\ (hub.pc = "blocked" /\ hub.full = {} /\ Cardinality(hub.members) > 1)
          => \E cl \in hub.todo \ {hub.client} : IsFull(cl)
    /\ (hub.pc = "select" /\ Cardinality(hub.full) = 1)
          => /\ hub.sent = hub.members \ hub.full
             /\ \A cl \in hub.sent : /\ TimesEnqueued(cl, hub.msg.message) = 1
                                     /\ Registered(cl) /\ IsOpen(cl)
             /\ \A cl \in hub.full : /\ TimesEnqueued(cl, hub.msg.message) = 0
                                     /\ \E i \in 1..Len(unregister) : unregister[i] = cl

C5_UnregisterStep ==
    \A cl \in ClientIds :
        (HandlesUnregister(cl) /\ Registered(cl)) =>
            /\ ~Registered(cl)' /\ closes'[cl] = 1
            /\ \A other \in ClientIds \ {cl} :
                  /\ Registered(other)' = Registered(other)
                  /\ closes'[other] = closes[other]

\* C5: the outcome holds in every state and every unregister step is as
\* described.
C5_OneFullMember == []C5_Outcome /\ [][C5_UnregisterStep]_hubVars

(***************************************************************************)
(* C6.  A slow consumer never stalls the hub: the actor never parks in     *)
(* `h.unregister <- client` inside broadcastToChannel with h.unregister    *)
(* full, a send that only the actor itself could unblock.                  *)
(***************************************************************************)
C6_ActorNeverStalls == hub.pc # "blocked"

(***************************************************************************)
(* C7.  Per-channel ordering: on every connection the donation messages    *)
(* are placed on the outbound queue in the order in which they were        *)
(* broadcast, each at most once, and the write loop writes the queued      *)
(* messages to the socket in the order of the queue, each at most once.    *)
(***************************************************************************)
C7_PerChannelOrder ==
    \A cl \in ClientIds :
        /\ StrictlyIncreasing(DonationsIn(enq[cl]))
        /\ IsPrefix(written[cl], enq[cl])

\* Both events were broadcast: one connection has both written to its
\* socket, after its welcome.
C7_Witness ==
    \E cl \in ClientIds :
        written[cl] = <<WelcomeMessage, DonationMessage(1), DonationMessage(2)>>

(***************************************************************************)
(* C9.  unregister is idempotent: handling an unregister request for a      *)
(* client that is not (or no longer) in the registry changes neither the   *)
(* registry nor any queue, and no queue is ever closed twice.              *)
(***************************************************************************)
C9_Step ==
    \A cl \in ClientIds :
        (HandlesUnregister(cl) /\ ~Registered(cl)) =>
            UNCHANGED <<clients, closes, send, crashed>>

C9_ClosedOnce == \A cl \in ClientIds : closes[cl] <= 1

\* C9: no queue is closed twice, and a repeated unregister changes nothing.
C9_UnregisterIdempotent == []C9_ClosedOnce /\ [][C9_Step]_hubVars

\* Two unregister requests were handled for one connection, one issued by a
\* broadcast that found its queue full and one by its read loop: its queue
\* was closed once.
C9_Witness ==
    \E cl \in ClientIds :
        /\ handled[cl] = 2 /\ closes[cl] = 1
        /\ conns[cl].readPump = "done"
        /\ ~Registered(cl)
        /\ \A i \in 1..Len(unregister) : unregister[i] # cl

(***************************************************************************)
(* C11.  Fail-open on an idempotency-store outage: a ProcessWebhook call    *)
(* whose SetNX returned an error does not return before it has looked up   *)
(* its Payment.                                                            *)
(***************************************************************************)
C11_FailOpen ==
    \A c \in Slots :
        (calls[c].gate = "err" /\ calls[c].pc = "ret") =>
            \E i \in TraceIdx(calls[c]) : calls[c].trace[i][1] = "R_pay"

(***************************************************************************)
(* C12.  Concurrent deliveries of one (provider, orderId, transactionId)   *)
(* while the store answers: the call that reaches SetNX first claims the   *)
(* key and every later one finds it set, the key is never removed, no two  *)
(* calls in progress hold the same key as claimed, and a call that found   *)
(* the key set has returned nil without any access to a Payment, a         *)
(* Donation or the broker.                                                 *)
(***************************************************************************)
KeyOf(call) == IdempotencyKey(call.provider, call.order, call.tx)

C12_Gate ==
    \A a, b \in Slots :
        /\ (a # b /\ calls[a].kind \in WebhookKinds /\ calls[b].kind \in WebhookKinds
              /\ KeyOf(calls[a]) = KeyOf(calls[b]))
              => ~(calls[a].gate = "claimed" /\ calls[b].gate = "claimed")
        /\ calls[a].gate = "claimed" => KeyOf(calls[a]) \in idem
        /\ calls[a].gate = "dup" =>
              /\ calls[a].pc = "ret" /\ calls[a].result = "nil"
              /\ EffectSeq(calls[a]) = <<>>
              /\ \A i \in TraceIdx(calls[a]) : calls[a].trace[i][1] \notin {"R_pay", "R_don"}

C12_Step ==
    /\ idem \subseteq idem'
    /\ \A c \in Slots :
          (calls[c].pc = "pw_setnx" /\ calls'[c] # calls[c] /\ calls'[c].gate # "err") =>
              /\ calls'[c].gate = IF KeyOf(calls[c]) \in idem THEN "dup" ELSE "claimed"
              /\ KeyOf(calls[c]) \in idem'

\* C12: the gate invariant holds in every state and every SetNX step is atomic.
C12_ExactlyOnePasses == []C12_Gate /\ [][C12_Step]_payVars

\* Two deliveries of the same notification are in progress at once: one has
\* claimed the key and is still being processed, the other was turned away.
C12_Witness ==
    \E a, b \in Slots :
        /\ a # b
        /\ calls[a].kind = "midtrans" /\ calls[b].kind = "midtrans"
        /\ KeyOf(calls[a]) = KeyOf(calls[b])
        /\ calls[a].gate = "claimed" /\ calls[a].pc \notin {"ret", "idle"}
        /\ calls[b].gate = "dup" /\ calls[b].pc = "ret"

(***************************************************************************)
(* C13.  A failed publish after the paid transition rolls nothing back:    *)
(* the step in which ProcessWebhook's publish fails changes no Payment and *)
(* no Donation, and a webhook call whose publish failed has written its    *)
(* Payment as paid and its Donation as completed, has written nothing      *)
(* else, and has returned nil.                                             *)
(***************************************************************************)
PublishFailedIn(call) ==
    \E i \in TraceIdx(call) : call.trace[i][1] = "pub" /\ call.trace[i][3] = "err"

C13_Call ==
    \A c \in Slots :
        (calls[c].kind \in WebhookKinds /\ PublishFailedIn(calls[c])) =>
            /\ calls[c].pc = "ret" /\ calls[c].result = "nil"
            /\ EffectSeq(calls[c]) =
                  << <<"W_pay", calls[c].payId, StatusPaid>>,
                     <<"W_don", PaymentDonationID[calls[c].payId], StatusCompleted>>,
                     <<"pub", PaymentDonationID[calls[c].payId], "err">> >>

C13_Step ==
    \A c \in Slots :
        (calls[c].kind \in WebhookKinds /\ ~PublishFailedIn(calls[c])
            /\ PublishFailedIn(calls'[c])) =>
                /\ payments' = payments /\ donations' = donations
                /\ published' = published

\* C13: both parts, in every state and at every step.
C13_PublishFailureKeepsPaid == []C13_Call /\ [][C13_Step]_payVars

\* A webhook call has returned nil after its publish failed, and its Payment
\* is paid and its Donation completed in the store.
C13_Witness ==
    \E c \in Slots :
        /\ calls[c].kind \in WebhookKinds /\ PublishFailedIn(calls[c])
        /\ calls[c].pc = "ret" /\ calls[c].result = "nil"
        /\ payments[calls[c].payId].status = StatusPaid
        /\ donations[PaymentDonationID[calls[c].payId]].status = StatusCompleted

(***************************************************************************)
(* C14.  With the handler as NewServer builds it (no webhook-log           *)
(* repository), every answered webhook request is answered with 200,       *)
(* except an authorization failure, which is answered with 401.            *)
(***************************************************************************)
C14_AlwaysAcknowledged ==
    \A c \in Slots :
        (logRepo = "nil" /\ calls[c].kind \in WebhookKinds /\ calls[c].pc = "ret") =>
            \/ calls[c].resp = 200
            \/ calls[c].resp = 401 /\ calls[c].result = "unauthorized"

(***************************************************************************)
(* C15.  When no Payment has the call's provider and order id, the lookup  *)
(* step of ProcessWebhook ends the call with the error "payment not        *)
(* found", the handler answers 200, the step changes no Payment and no     *)
(* Donation and publishes nothing, and the call has made no write to a     *)
(* Payment or a Donation and no publish.                                   *)
(***************************************************************************)
NoPaymentMatches(call) ==
    \A p \in PaymentIds :
        ~(PaymentProvider[p] = call.provider /\ PaymentExternalID[p] = call.order)

C15_Step ==
    \A c \in Slots :
        (calls[c].kind \in WebhookKinds /\ calls[c].pc = "pw_getpay"
            /\ NoPaymentMatches(calls[c]) /\ calls'[c] # calls[c]) =>
                /\ calls'[c].pc = "ret"
                /\ calls'[c].result = "payment not found"
                /\ calls'[c].resp = 200
                /\ EffectSeq(calls'[c]) = <<>>
                /\ payments' = payments /\ donations' = donations
                /\ published' = published

C15_NotFoundIsAcknowledged == [][C15_Step]_payVars

\* A webhook for an order no Payment carries has been looked up and answered.
C15_Witness ==
    \E c \in Slots :
        /\ calls[c].kind \in WebhookKinds /\ NoPaymentMatches(calls[c])
        /\ calls[c].gate = "claimed" /\ ~calls[c].faulted
        /\ calls[c].pc = "ret" /\ calls[c].result = "payment not found"
        /\ calls[c].resp = 200

(***************************************************************************)
(* C16.  A Xendit webhook whose x-callback-token differs from the          *)
(* configured token is answered 401 "unauthorized" with nothing done but   *)
(* the token check (no body read, no log row, no ProcessWebhook), and the  *)
(* step that handles it changes no Payment, no Donation, no idempotency    *)
(* key, no log row and no publish count.                                   *)
(***************************************************************************)
HasWrongToken(call) == call.kind = "xendit" /\ call.req.token # XenditWebhookToken

C16_Call ==
    \A c \in Slots :
        HasWrongToken(calls[c]) =>
            /\ calls[c].pc = "ret"
            /\ calls[c].result = "unauthorized" /\ calls[c].resp = 401
            /\ calls[c].trace = << <<"verify", "token", "fail">> >>
            /\ calls[c].status = "" /\ calls[c].gate = "none"

C16_Step ==
    \A c \in Slots :
        (~HasWrongToken(calls[c]) /\ HasWrongToken(calls'[c])) =>
            /\ payments' = payments /\ donations' = donations /\ idem' = idem
            /\ webhookLog' = webhookLog /\ published' = published

C16_WrongTokenRejected == []C16_Call /\ [][C16_Step]_payVars

\* A Xendit request with a wrong token has been answered.
C16_Witness ==
    \E c \in Slots :
        /\ HasWrongToken(calls[c]) /\ calls[c].pc = "ret" /\ calls[c].resp = 401

(***************************************************************************)
(* C17.  Donation fan-out targets overlay channels only.  When             *)
(* BroadcastDonation starts, the channels it is going to send to are       *)
(* exactly the channels of the registry named overlay:<non-empty token>;   *)
(* a channel leaves that set only by a donation broadcast for it being put *)
(* on h.broadcast; every donation broadcast on h.broadcast is for such a   *)
(* channel; and no connection of an admin:<userId> channel ever has a      *)
(* donation message on its outbound queue.                                 *)
(***************************************************************************)
NamedOverlay(ch) == ch.prefix = "overlay:" /\ ch.rest # ""

C17_State ==
    /\ \A i \in 1..Len(broadcast) :
          broadcast[i].message.type = "donation" => NamedOverlay(broadcast[i].channel)
    /\ \A ch \in bridge.todo : NamedOverlay(ch) /\ clients[ch].present
    /\ \A cl \in ClientIds :
          conns[cl].channel.prefix = "admin:" => DonationsIn(enq[cl]) = <<>>

C17_Step ==
    /\ nextEvent' # nextEvent =>
          bridge'.todo = {ch \in Channels : clients[ch].present /\ NamedOverlay(ch)}
    /\ \A ch \in bridge.todo \ bridge'.todo :
          /\ Len(broadcast') = Len(broadcast) + 1
          /\ broadcast'[Len(broadcast')] =
                [channel |-> ch, message |-> DonationMessage(bridge.event)]

C17_OverlayOnly == []C17_State /\ [][C17_Step]_hubVars

\* An admin connection and an overlay connection are both registered, a
\* donation has reached the overlay connection's queue, and the admin
\* connection's queue holds its welcome message only.
C17_Witness ==
    \E a, o \in ClientIds :
        /\ conns[a].channel.prefix = "admin:" /\ Registered(a)
        /\ conns[o].channel.prefix = "overlay:" /\ Registered(o)
        /\ DonationsIn(enq[o]) # <<>>
        /\ enq[a] # <<>> /\ bridge.pc = "idle"

(***************************************************************************)
(* C18.  The registry is written only by the hub actor.  Every step that   *)
(* changes h.clients is the actor handling a register or an unregister     *)
(* message (received in that step, or received earlier and waited with in  *)
(* h.mu.Lock), and at that step no other goroutine is reading the map:     *)
(* the bridge is not inside the loop of BroadcastDonation and no caller is *)
(* inside GetStats or GetClientCount.  A slow consumer is removed by a     *)
(* message on h.unregister, not by a write to the map.                     *)
(***************************************************************************)
ActorHandlesMessage ==
    \/ hub.pc = "select" /\ register # <<>> /\ register' = Tail(register)
    \/ hub.pc = "select" /\ unregister # <<>> /\ unregister' = Tail(unregister)
    \/ hub.pc \in {"register", "unregister"}

ReadersInside == {r \in {"bridge", "reader"} :
                     \/ r = "bridge" /\ bridge.pc = "sending"
                     \/ r = "reader" /\ reader # ""}

C18_Step ==
    /\ clients' # clients =>
          /\ ActorHandlesMessage /\ hub'.pc = "select"
          /\ bridge' = bridge /\ reader' = reader /\ conns' = conns
          /\ ReadersInside = {}
    /\ \A cl \in ClientIds :
          (hub.pc = "broadcast" /\ hub'.full = hub.full \cup {cl} /\ cl \notin hub.full) =>
              /\ clients' = clients
              /\ unregister' = Append(unregister, cl)

C18_RegistryOwnedByActor == [][C18_Step]_hubVars

\* The actor holds an unregister message for a registered connection and
\* waits in h.mu.Lock while a caller of GetStats or GetClientCount is reading.
C18_Witness ==
    /\ hub.pc = "unregister" /\ reader # ""
    /\ Registered(hub.client)

(***************************************************************************)
(* C19.  End-to-end delivery, on the hub's side.  With the actor and the   *)
(* bridge scheduled fairly: whenever the bridge is handling a donation      *)
(* event while a connection is registered on an overlay channel, then      *)
(* eventually that connection has the event's message on its outbound      *)
(* queue, or the actor found its queue full, or it is no longer            *)
(* registered, or the process has ended; and no connection ever has the    *)
(* message of one event on its queue twice.                                *)
(***************************************************************************)
Events == 1..MaxEvents

BridgeHandles(e, cl) ==
    /\ bridge.pc = "sending" /\ bridge.event = e
    /\ Registered(cl) /\ IsOverlayChannel(conns[cl].channel)

FoundFull(e, cl) ==
    /\ hub.msg.message = DonationMessage(e)
    /\ \/ cl \in hub.full
       \/ hub.pc = "blocked" /\ hub.client = cl

Delivered(e, cl) == TimesEnqueued(cl, DonationMessage(e)) = 1

C19_EventuallyDelivered ==
    /\ \A e \in Events, cl \in ClientIds :
          BridgeHandles(e, cl) ~>
              (Delivered(e, cl) \/ FoundFull(e, cl) \/ ~Registered(cl) \/ crashed # "")
    /\ [](\A e \in Events, cl \in ClientIds : TimesEnqueued(cl, DonationMessage(e)) <= 1)

(***************************************************************************)
(* C20.  After Stop, the goroutine of Run and the subscriber goroutine     *)
(* both eventually return (or the process has ended), and the step of Stop *)
(* itself closes no outbound queue and changes no entry of the registry.   *)
(***************************************************************************)
C20_StopStep ==
    stopped' # stopped =>
        /\ clients' = clients /\ closes' = closes /\ send' = send
        /\ conns' = conns

C20_StopTerminates ==
    /\ stopped ~> ((hub.pc = "done" /\ bridge.pc = "done") \/ crashed # "")
    /\ [][C20_StopStep]_hubVars

(***************************************************************************)
(* C21.  Payment and Donation stay mirrored: whenever no ProcessWebhook or *)
(* ManualReconcile call is in progress, every Payment is paid exactly when *)
(* its Donation is completed, an expired Payment has an expired Donation   *)
(* and a failed Payment has a failed Donation.                             *)
(***************************************************************************)
NoCallInProgress == \A c \in Slots : calls[c].pc \in {"idle", "ret"}

Mirrored(p) ==
    LET ps == payments[p].status
        ds == donations[PaymentDonationID[p]].status
    IN  /\ (ps = StatusPaid) <=> (ds = StatusCompleted)
        /\ ps = StatusExpired => ds = StatusExpired
        /\ ps = StatusFailed => ds = StatusFailed

C21_Mirrored == NoCallInProgress => \A p \in PaymentIds : Mirrored(p)

(***************************************************************************)
(* C22.  Commit precedes publish: in every call, on the webhook path and   *)
(* on the manual-reconcile path, a publish of a DonationEvent comes after  *)
(* a successful write of the Payment as paid and a successful write of the *)
(* Donation as completed by the same call.                                 *)
(***************************************************************************)
C22_CommitPrecedesPublish ==
    \A c \in Slots :
        \A i \in TraceIdx(calls[c]) :
            (calls[c].trace[i][1] = "pub" /\ calls[c].trace[i][3] = "ok") =>
                /\ \E j \in 1..(i - 1) :
                      calls[c].trace[j] = <<"W_pay", calls[c].payId, StatusPaid>>
                /\ \E j \in 1..(i - 1) :
                      calls[c].trace[j] =
                          <<"W_don", PaymentDonationID[calls[c].payId], StatusCompleted>>

(***************************************************************************)
(* C23.  ProcessWebhook changes a Payment only when it found it pending: a *)
(* webhook call that read its Payment as expired, failed or refunded       *)
(* attempts no write of the Payment or the Donation and publishes nothing. *)
(***************************************************************************)
C23_OnlyPendingChanges ==
    \A c \in Slots :
        (/\ calls[c].kind \in WebhookKinds
         /\ \E i \in TraceIdx(calls[c]) :
               /\ calls[c].trace[i][1] = "R_pay"
               /\ calls[c].trace[i][3] \in {StatusExpired, StatusFailed, StatusRefunded})
            => \A i \in TraceIdx(calls[c]) :
                  calls[c].trace[i][1] \notin {"W_pay", "W_don", "pub"}

(***************************************************************************)
(* C24.  No regression on unknown or pending statuses: a webhook call      *)
(* whose provider status is pending, or is none of the values the ingress  *)
(* knows, attempts no write of a Payment or a Donation and no publish, and *)
(* none of its steps changes a Payment, a Donation or a publish count.     *)
(***************************************************************************)
ReportsPendingOrUnknown(call) ==
    \/ /\ call.kind = "midtrans"
       /\ call.req.transaction_status \notin {"capture", "settlement", "deny", "cancel", "expire"}
    \/ /\ call.kind = "xendit"
       /\ call.req.body.status \notin {"PAID", "SETTLED", "COMPLETED", "EXPIRED", "FAILED"}

C24_Call ==
    \A c \in Slots :
        ReportsPendingOrUnknown(calls[c]) =>
            \A i \in TraceIdx(calls[c]) : calls[c].trace[i][1] \notin {"W_pay", "W_don", "pub"}

C24_Step ==
    \A c \in Slots :
        (ReportsPendingOrUnknown(calls[c]) /\ calls'[c] # calls[c]) =>
            payments' = payments /\ donations' = donations /\ published' = published

C24_NoRegression == []C24_Call /\ [][C24_Step]_payVars

\* A webhook with a status the ingress does not know has found its pending
\* Payment and returned nil.
C24_Witness ==
    \E c \in Slots :
        /\ calls[c].kind = "midtrans" /\ calls[c].req.transaction_status = "refund"
        /\ calls[c].pc = "ret" /\ calls[c].result = "nil"
        /\ \E i \in TraceIdx(calls[c]) :
              calls[c].trace[i] = <<"R_pay", calls[c].payId, StatusPending>>

(***************************************************************************)
(* C25.  The ingress status mapping equals the table: Midtrans capture and *)
(* settlement map to paid for every fraud_status, pending to pending, deny *)
(* and cancel to failed, expire to expired; Xendit PAID and SETTLED map to *)
(* paid, PENDING and ACTIVE to pending, EXPIRED to expired, FAILED to      *)
(* failed; every other value maps to pending.                              *)
(***************************************************************************)
TableOf(paid, failed, expired, status) ==
    IF status \in paid THEN StatusPaid
    ELSE IF status \in failed THEN StatusFailed
    ELSE IF status \in expired THEN StatusExpired
    ELSE StatusPending

C25_Original ==
    mapped.result # "" =>
        mapped.result =
            IF mapped.provider = ProviderMidtrans
            THEN TableOf({"capture", "settlement"}, {"deny", "cancel"}, {"expire"}, mapped.status)
            ELSE TableOf({"PAID", "SETTLED"}, {"FAILED"}, {"EXPIRED"}, mapped.status)

\* C25 as the code has it: a Midtrans capture maps to paid only when
\* fraud_status is accept or empty and to pending otherwise, and Xendit
\* COMPLETED maps to paid as well; the rest of the table is as above.
C25_Amended ==
    mapped.result # "" =>
        mapped.result =
            IF mapped.provider = ProviderMidtrans
            THEN IF mapped.status = "capture" /\ mapped.fraud \notin {"accept", ""}
                 THEN StatusPending
                 ELSE TableOf({"capture", "settlement"}, {"deny", "cancel"}, {"expire"},
                              mapped.status)
            ELSE TableOf({"PAID", "SETTLED", "COMPLETED"}, {"FAILED"}, {"EXPIRED"},
                         mapped.status)

\* A Midtrans capture under fraud challenge has been mapped, to pending.
C25_Witness ==
    /\ mapped.provider = ProviderMidtrans /\ mapped.status = "capture"
    /\ mapped.fraud = "challenge" /\ mapped.result = StatusPending

(***************************************************************************)
(* C26.  No channel of the registry maps to an empty set: a channel that   *)
(* is a key of h.clients has at least one connection, and a channel that   *)
(* is not a key has none.                                                  *)
(***************************************************************************)
C26_NoEmptyChannel ==
    \A ch \in Channels :
        /\ clients[ch].present => clients[ch].members # {}
        /\ ~clients[ch].present => clients[ch].members = {}

\* The last connection of a channel has been unregistered and the channel
\* is no longer a key of the registry, while the other channel still is.
C26_Witness ==
    \E cl \in ClientIds :
        /\ conns[cl].channel \in Channels
        /\ closes[cl] = 1
        /\ ~clients[conns[cl].channel].present
        /\ \E ch \in Channels : clients[ch].present

(***************************************************************************)
(* C27.  For every connection, the first message ever placed on its        *)
(* outbound queue is its welcome message.                                  *)
(***************************************************************************)
C27_WelcomeFirst ==
    \A cl \in ClientIds : enq[cl] # <<>> => enq[cl][1] = WelcomeMessage

(***************************************************************************)
(* C28.  Every inbound ping places exactly one pong on the outbound queue  *)
(* of its connection, and every inbound subscribe exactly one ack,         *)
(* whatever the queue holds at that moment.                                *)
(***************************************************************************)
Reads(type) == inbound'.count = inbound.count + 1 /\ inbound'.type = type

C28_Step ==
    \A type \in {"ping", "subscribe"} :
        Reads(type) =>
            LET cl == inbound'.client
                reply == IF type = "ping" THEN PongMessage ELSE AckMessage
            IN  /\ send'[cl] = Append(send[cl], reply)
                /\ enq'[cl] = Append(enq[cl], reply)

C28_PingAnswered == [][C28_Step]_hubVars

(***************************************************************************)
(* C29.  An inbound message whose type is neither ping nor subscribe is    *)
(* ignored: the step that reads it places nothing on any outbound queue,   *)
(* changes no registry entry, sends nothing on h.unregister or h.register, *)
(* closes nothing, and leaves the read loop and every other goroutine of   *)
(* the connection where it was.                                            *)
(***************************************************************************)
C29_Step ==
    Reads("hello") =>
        /\ send' = send /\ enq' = enq
        /\ clients' = clients
        /\ unregister' = unregister /\ register' = register
        /\ closes' = closes /\ crashed' = crashed
        /\ conns' = conns

C29_UnknownIgnored == [][C29_Step]_hubVars

\* A message of an unknown type has been read on a registered connection
\* whose read loop is still running.
C29_Witness ==
    /\ inbound.count = 1 /\ inbound.type = "hello"
    /\ Registered(inbound.client)
    /\ conns[inbound.client].readPump = "run"

(***************************************************************************)
(* C30.  Once the hub has closed a connection's outbound queue, the        *)
(* connection's write loop eventually returns, which closes the physical   *)
(* connection (or the process has ended); a write loop that loses a        *)
(* message to a socket write error returns in that step; and a write loop  *)
(* that runs against a closed and drained queue writes nothing more and    *)
(* takes no step but its return.                                           *)
(***************************************************************************)
C30_Step ==
    \A cl \in ClientIds :
        /\ (conns[cl].writePump = "run" /\ Len(send'[cl]) < Len(send[cl])
              /\ written'[cl] = written[cl])
              => conns'[cl].writePump = "done"
        /\ (conns[cl].writePump = "run" /\ closes[cl] > 0 /\ send[cl] = <<>>)
              => /\ written'[cl] = written[cl]
                 /\ conns'[cl].writePump \in {"run", "done"}

C30_WriteLoopTerminates ==
    /\ \A cl \in ClientIds :
          (closes[cl] > 0) ~> (conns[cl].writePump = "done" \/ crashed # "")
    /\ [][C30_Step]_hubVars

\* The hub has closed the queue of a connection while messages were still
\* queued, and the write loop has returned after writing them.
C30_Witness ==
    \E cl \in ClientIds :
        /\ closes[cl] = 1 /\ conns[cl].writePump = "done"
        /\ send[cl] = <<>> /\ Len(written[cl]) >= 2

(***************************************************************************)
(* C31.  When the subscriber receives a payload that fails to decode, the  *)
(* payload is dropped: nothing is passed to BroadcastDonation, nothing is  *)
(* placed on h.broadcast, no state of the hub changes, and the subscriber  *)
(* is back at its select.  The loop never returns because of a payload,    *)
(* and when it then receives a well-formed payload it passes that event to *)
(* BroadcastDonation; whenever the subscriber is at its select with a      *)
(* payload waiting, the receive can be taken (a well-formed payload waits  *)
(* for the read lock while the actor is taking the write lock).            *)
(***************************************************************************)
C31_Step ==
    (topic # <<>> /\ topic' = Tail(topic)) =>
        IF ParseDonationEvent(Head(topic)).err
        THEN /\ forwarded' = forwarded
             /\ bridge' = BridgeIdle
             /\ UNCHANGED <<clients, register, unregister, broadcast, hub, conns, send,
                            closes, enq, written, crashed>>
        ELSE forwarded' = Append(forwarded, ParseDonationEvent(Head(topic)).id)

C31_Ready ==
    /\ bridge.pc # "done"
    /\ (crashed = "" /\ bridge.pc = "idle" /\ topic # <<>>
          /\ hub.pc \notin {"register", "unregister"}) => ENABLED Subscriber_Receive

C31_DecodeFailureDropped == [][C31_Step]_vars /\ []C31_Ready

\* A payload that did not decode was dropped, and an event published after
\* it has been passed to BroadcastDonation and is on its way to the hub.
C31_Witness ==
    /\ 1 \in dropped
    /\ forwarded = <<2>>
    /\ bridge.pc = "sending" /\ bridge.event = 2

(***************************************************************************)
(* C32.  A connection exists, is queued on h.register or is in the         *)
(* registry only for a validated credential: an overlay token that is not  *)
(* empty and that ValidateOverlayToken accepts, or the subject of validated*)
(* admin claims.  A request answered 401 (empty token, token rejected by   *)
(* ValidateOverlayToken, no claims) leaves h.register, the registry and    *)
(* the connections as they were.                                           *)
(***************************************************************************)
Authorised(channel) ==
    \/ /\ channel.prefix = "overlay:"
       /\ channel.rest # ""
       /\ ValidateOverlayToken(channel.rest).valid
       /\ ~ValidateOverlayToken(channel.rest).err
    \/ /\ channel.prefix = "admin:"
       /\ Claims(channel.rest) \in AdminClaims

InRegisterQueue(cl) == \E i \in 1..Len(register) : register[i] = cl

C32_State ==
    /\ \A cl \in ClientIds : conns[cl].pc # "none" => Authorised(conns[cl].channel)
    /\ \A cl \in ClientIds :
          (InRegisterQueue(cl) \/ \E ch \in Channels : cl \in clients[ch].members)
              => conns[cl].pc # "none"
    /\ \A ch \in Channels : clients[ch].present => Authorised(ch)

C32_Step ==
    refused' # refused => UNCHANGED <<register, clients, conns, hub, send, enq>>

C32_RegisterNeedsCredential == []C32_State /\ [][C32_Step]_vars

\* The three kinds of request have been answered 401, and a connection with
\* an accepted token is in the registry while another is queued on
\* h.register.
C32_Witness ==
    /\ refused = {[handler |-> "overlay", credential |-> ""],
                  [handler |-> "overlay", credential |-> "0123456789abcdef0123456789abcde"],
                  [handler |-> "admin", credential |-> ""]}
    /\ \E cl \in ClientIds : Registered(cl) /\ conns[cl].channel.prefix = "overlay:"
    /\ \E cl \in ClientIds : InRegisterQueue(cl)

(***************************************************************************)
(* C33.  No goroutine sends on a connection's outbound queue after the hub *)
(* has closed it: the process never ends in the runtime panic "send on     *)
(* closed channel", whether the sender is sendJSON in the read loop, the   *)
(* handler's SendWelcome or the hub's own broadcast.                       *)
(***************************************************************************)
C33_NoSendOnClosed == crashed # "send on closed channel"

(***************************************************************************)
(* C34.  Once the read loop of a connection has ended and the actor has    *)
(* handled every request issued for that connection (nothing for it is     *)
(* queued on h.register or h.unregister, and the actor is not in the       *)
(* middle of registering or unregistering it), the connection is not in    *)
(* the registry.                                                           *)
(***************************************************************************)
InUnregisterQueue(cl) == \E i \in 1..Len(unregister) : unregister[i] = cl

AllRequestsHandled(cl) ==
    /\ ~InRegisterQueue(cl)
    /\ ~InUnregisterQueue(cl)
    /\ ~(hub.pc \in {"register", "unregister", "blocked"} /\ hub.client = cl)

C34_MembershipFollowsLifetime ==
    \A cl \in ClientIds :
        (crashed = "" /\ conns[cl].readPump = "done" /\ AllRequestsHandled(cl))
            => ~Registered(cl)

(***************************************************************************)
(* C35.  The bridge and the actor never wait for each other: there is no   *)
(* reachable state in which BroadcastDonation holds the read lock of the   *)
(* registry and is blocked in its send on a full h.broadcast while Run,    *)
(* the only receiver of h.broadcast, is blocked in h.mu.Lock inside        *)
(* registerClient or unregisterClient.                                     *)
(***************************************************************************)
C35_NoDeadlock ==
    ~(/\ bridge.pc = "sending"
      /\ Len(broadcast) = HubChanCap
      /\ hub.pc \in {"register", "unregister"})

(***************************************************************************)
(* C36.  Every connection in the registry has an open outbound queue and   *)
(* is a member only of the set keyed by its own channel; and a step that   *)
(* closes a queue is a step of the actor that removes the connection from  *)
(* the registry.                                                           *)
(***************************************************************************)
C36_State ==
    \A ch \in Channels : \A cl \in clients[ch].members :
        /\ clients[ch].present
        /\ closes[cl] = 0
        /\ conns[cl].channel = ch

C36_Step ==
    \A cl \in ClientIds :
        closes'[cl] # closes[cl] =>
            /\ closes'[cl] = closes[cl] + 1
            /\ Registered(cl)
            /\ \A ch \in Channels : cl \notin clients'[ch].members
            /\ hub'.pc = "select"

C36_RegistryWellFormed == []C36_State /\ [][C36_Step]_vars

\* Two connections on different channels are registered with open queues,
\* after the queue of one connection was closed on its removal.
C36_Witness ==
    /\ Registered("c2") /\ conns["c2"].channel.prefix = "admin:"
    /\ closes["c1"] = 1 /\ ~Registered("c1")
    /\ closes["c2"] = 0

(***************************************************************************)
(* C37.  A non-final notification does not block the final one: when a     *)
(* valid webhook that reports a pending or unknown status has been         *)
(* processed first (it claimed the idempotency key) and a valid webhook    *)
(* that reports paid for the same (provider, orderId, transactionId) has   *)
(* been processed after it, with no store error anywhere, the Payment is   *)
(* paid, its Donation is completed and the DonationEvent was published.    *)
(***************************************************************************)
C37_FinalNotBlocked ==
    \A a, b \in Slots :
        (/\ a # b
         /\ calls[a].pc = "ret" /\ calls[b].pc = "ret"
         /\ calls[a].kind \in WebhookKinds /\ calls[b].kind \in WebhookKinds
         /\ KeyOf(calls[a]) = KeyOf(calls[b])
         /\ ReportsPendingOrUnknown(calls[a]) /\ calls[a].gate = "claimed"
         /\ calls[b].status = StatusPaid /\ calls[b].gate # "none"
         /\ faults = 0)
            => \A p \in GetByExternalID(calls[b].provider, calls[b].order) :
                  /\ payments[p].status = StatusPaid
                  /\ donations[PaymentDonationID[p]].status = StatusCompleted
                  /\ published[PaymentDonationID[p]] >= 1

(***************************************************************************)
(* C38.  A failed application is recoverable by retry: when ProcessWebhook *)
(* has returned an error after claiming the idempotency key (the Payment   *)
(* was not found, or a Payment or Donation access failed) and the same     *)
(* callback has been delivered again and processed with no store error,    *)
(* the Payment and its Donation are in the state the callback reports.     *)
(***************************************************************************)
ReturnedError(call) == call.pc = "ret" /\ call.result \notin {"nil", "unauthorized", "panic"}

C38_RetryRecovers ==
    \A a, b \in Slots :
        (/\ a # b
         /\ calls[a].kind \in WebhookKinds /\ calls[b].kind \in WebhookKinds
         /\ calls[a].id < calls[b].id
         /\ calls[a].req = calls[b].req
         /\ calls[a].gate = "claimed" /\ ReturnedError(calls[a]) /\ calls[a].faulted
         /\ calls[a].status \in FinalStatuses
         /\ calls[b].pc = "ret" /\ calls[b].gate # "none" /\ ~calls[b].faulted)
            => \A p \in GetByExternalID(calls[b].provider, calls[b].order) :
                  /\ payments[p].status = calls[b].status
                  /\ donations[PaymentDonationID[p]].status = DonationStatusFor(calls[b].status)

(***************************************************************************)
(* C39.  Whatever the configuration, a Xendit webhook request without an   *)
(* x-callback-token header is answered 401 at the token check and performs *)
(* nothing else: no webhook log row, no idempotency key, no access to a    *)
(* Payment or a Donation, no publish.                                      *)
(***************************************************************************)
C39_MissingTokenRejected ==
    \A c \in Slots :
        (calls[c].kind = "xendit" /\ calls[c].req.token = "") =>
            /\ calls[c].pc = "ret"
            /\ calls[c].result = "unauthorized" /\ calls[c].resp = 401
            /\ calls[c].trace = << <<"verify", "token", "fail">> >>

(***************************************************************************)
(* C40.  The status applied by a Midtrans webhook is bound to its          *)
(* signature: two notifications with the same signature_key that both pass *)
(* verifyMidtransSignature cannot differ in transaction_status or          *)
(* fraud_status in a way that changes the status handed to ProcessWebhook, *)
(* nor split the signed characters so as to name different orders: the     *)
(* status applied and the order it is applied to are the same for both.    *)
(***************************************************************************)
C40_StatusBoundToSignature ==
    (/\ Len(checked.outcome) = 2
     /\ checked.payload[1].signature_key = checked.payload[2].signature_key
     /\ checked.outcome[1].accepted /\ checked.outcome[2].accepted)
        => /\ checked.outcome[1].status = checked.outcome[2].status
           /\ checked.payload[1].order_id = checked.payload[2].order_id

====
